---- MODULE Spec2Model ----
(***************************************************************************)
(* Scan & metadata resolution pipeline of BookScaner (backend/app).        *)
(*                                                                         *)
(* One request slot per concurrently running POST /scan handler.  Every    *)
(* external call of the handler (key-value store, OCR providers,           *)
(* aggregation model, catalogs) is one step, so that requests interleave   *)
(* at the calls.  Fields of a request record whose name starts with h_ are *)
(* history fields: the code does not hold them, they record what a step   *)
(* did.                                                                    *)
(***************************************************************************)
EXTENDS Integers, Sequences, FiniteSets, TLC

(* ----------------------------- bounds ---------------------------------- *)
\* total number of scan requests received in one behaviour
MaxScans == 3

Reqs == {"r1", "r2"}

\* total number of requests that reach the rate-limit dependency
MaxChecks == 3

\* total number of times the clock is moved
MaxTicks == 2

\* total number of POST /books/enrich requests received
MaxEnrich == 3

(* ----------------------------- options --------------------------------- *)
\* Python None / a present value
None == <<>>
Some(x) == <<x>>
IsSome(o) == Len(o) = 1
Get(o) == o[1]

(* ------------------------- services/types.py --------------------------- *)
\* BBox coordinates are modelled in tenths: 10 is 1.0
BBox(x, y, w, h) == [x |-> x, y |-> y, w |-> w, h |-> h]

Spine(text, candidate_isbn, bbox) ==
    [bbox |-> bbox, text |-> text, candidate_isbn |-> candidate_isbn]

\* Field(..., ge=0.0, le=1.0) for x, y and Field(..., gt=0.0, le=1.0) for w, h
ValidBBox(b) ==
    /\ b.x >= 0 /\ b.x <= 10
    /\ b.y >= 0 /\ b.y <= 10
    /\ b.w > 0 /\ b.w <= 10
    /\ b.h > 0 /\ b.h <= 10

\* Spine: text is a required str (no further validator), bbox is Optional[BBox]
ValidSpine(s) ==
    /\ IsSome(s.text)
    /\ IsSome(s.bbox) => ValidBBox(Get(s.bbox))

\* a raw spine object as it appears in a provider's JSON
RawSpine(text, candidate_isbn, bbox) ==
    [bbox |-> bbox, text |-> text, candidate_isbn |-> candidate_isbn]

\* SpineResult.parse_obj: every element must validate, the validated model
\* keeps the three fields
ToSpine(raw) == Spine(Get(raw.text), raw.candidate_isbn, raw.bbox)

SpineResult_parse_obj(data) ==
    IF \A i \in 1..Len(data.spines) : ValidSpine(data.spines[i])
    THEN Some([spines |-> [i \in 1..Len(data.spines) |-> ToSpine(data.spines[i])]])
    ELSE None

\* SpineResult.dict() that leaves candidate_isbn out
SpineResult_dict_noisbn(result) ==
    [spines |-> [i \in 1..Len(result.spines) |->
        RawSpine(Some(result.spines[i].text), None, result.spines[i].bbox)]]

\* SpineResult.dict(): the nested dict {"spines": [{bbox, text, candidate_isbn}]}
SpineResult_dict(result) ==
    [spines |-> [i \in 1..Len(result.spines) |->
        RawSpine(Some(result.spines[i].text),
                 result.spines[i].candidate_isbn,
                 result.spines[i].bbox)]]

(* ------------------------------- texts --------------------------------- *)
\* a text is a sequence of characters; Str is the string it spells
RECURSIVE Str(_)
Str(t) == IF t = <<>> THEN "" ELSE Head(t) \o Str(Tail(t))

\* str.strip()
RECURSIVE LStrip(_)
LStrip(t) == IF t # <<>> /\ Head(t) = " " THEN LStrip(Tail(t)) ELSE t

RECURSIVE RStrip(_)
RStrip(t) ==
    IF t # <<>> /\ t[Len(t)] = " " THEN RStrip(SubSeq(t, 1, Len(t) - 1)) ELSE t

Strip(t) == RStrip(LStrip(t))

\* str.lower(), character by character
LowerChar(c) ==
    CASE c = "B" -> "b"
      [] c = "D" -> "d"
      [] c = "H" -> "h"
      [] c = "Y" -> "y"
      [] c = "X" -> "x"
      [] OTHER -> c

Lower(t) == [i \in 1..Len(t) |-> LowerChar(t[i])]

\* str.find: the first position of pat in t, 0 when there is none
Find(t, pat) ==
    LET hits == { i \in 1..(Len(t) - Len(pat) + 1) :
                    SubSeq(t, i, i + Len(pat) - 1) = pat }
    IN  IF hits = {} THEN 0 ELSE CHOOSE i \in hits : \A j \in hits : i <= j

\* str.replace(pat, rep)
RECURSIVE Replace(_, _, _)
Replace(t, pat, rep) ==
    LET at == Find(t, pat) IN
    IF at = 0 THEN t
    ELSE SubSeq(t, 1, at - 1) \o rep
         \o Replace(SubSeq(t, at + Len(pat), Len(t)), pat, rep)

(* ------------------------ services/fingerprint.py ---------------------- *)
Digits == {"0", "1", "2", "3", "4", "5", "6", "7", "8", "9"}

Punctuation == {"-", "!", ":", "."}

\* unicodedata.normalize("NFKD", c) without its combining marks
\* (NFKD maps a compatibility character to its plain letter, whatever its
\* case: U+210C, the black-letter capital H, written "U+210C" here, to "H";
\* str.lower() leaves U+210C as it is)
StripAccent(c) ==
    CASE c = "é" -> "e"
      [] c = "U+210C" -> "H"
      [] OTHER -> c

_strip_accents(t) == [i \in 1..Len(t) |-> StripAccent(t[i])]

\* re.sub(r"\s+", " ", s).strip()
RECURSIVE CollapseSpaces(_)
CollapseSpaces(t) ==
    IF Len(t) < 2 THEN t
    ELSE IF t[1] = " " /\ t[2] = " " THEN CollapseSpaces(Tail(t))
    ELSE <<Head(t)>> \o CollapseSpaces(Tail(t))

_clean_spaces(t) == Strip(CollapseSpaces(t))

\* re.sub(r"[^\w\s]", " ", s)
DropPunctuation(t) ==
    [i \in 1..Len(t) |-> IF t[i] \in Punctuation THEN " " ELSE t[i]]

normalize_text(t) ==
    _clean_spaces(DropPunctuation(_strip_accents(_clean_spaces(Lower(t)))))

\* re.compile(r"[^0-9Xx]").sub("", isbn or "")
normalize_isbn(isbn) == SelectSeq(isbn, LAMBDA c : c \in Digits \cup {"X", "x"})

\* make_fingerprint: `if isbn` is the truth of the string as given
make_fingerprint(title, author, isbn) ==
    IF isbn # <<>> THEN normalize_isbn(isbn)
    ELSE LET t == normalize_text(title)
             a == normalize_text(author)
         IN  IF a # <<>> THEN t \o <<"|">> \o a ELSE t

(* --------------------------- inputs ------------------------------------ *)
\* texts are sequences of characters
TextDune == <<"D">>
TextDuneByH == <<"D", " ", "b", "y", " ", "H">>
TextBlank == <<" ">>

RawDune == RawSpine(Some(TextDune), None, Some(BBox(1, 0, 2, 9)))
RawDuneByH == RawSpine(Some(TextDuneByH), Some(<<"9">>), None)
RawBlank == RawSpine(Some(TextBlank), None, Some(BBox(0, 0, 10, 10)))
RawOutOfRange == RawSpine(Some(TextDune), None, Some(BBox(15, 0, 2, 9)))
RawNoText == RawSpine(None, None, None)

\* JSON documents a provider can answer with: schema-valid ones ...
ValidDocs ==
    { [spines |-> <<>>],
      [spines |-> <<RawDuneByH, RawBlank>>] }

\* ... and documents that are JSON but not of the expected shape
InvalidDocs ==
    { [spines |-> <<RawOutOfRange>>],
      [spines |-> <<RawDune, RawNoText>>] }

\* the uploaded image: the base64 size of "B" is over the 3.5 MB ceiling, so
\* that both the resized and the original bytes can go to the primary provider
ImageBytes == {"B"}

(* ------------------------- cache/helpers.py ---------------------------- *)
SCAN_TTL == 30 * 24 * 3600

\* hashlib.sha256(b).hexdigest()
_sha256(b) == "sha256(" \o b \o ")"

PyBool(flag) == IF flag THEN "True" ELSE "False"

\* f"scan:{image_hash}:groq_{groq_enabled}"
scan_key(image_hash, groq_enabled) ==
    "scan:" \o image_hash \o ":groq_" \o PyBool(groq_enabled)

\* the scan keys of the byte strings the service handles
ScanKeys ==
    { scan_key(_sha256(b), g) :
        b \in ImageBytes \cup { "resized(" \o c \o ")" : c \in ImageBytes },
        g \in BOOLEAN }

\* f"meta:{fingerprint}"
meta_key(fingerprint) == "meta:" \o Str(fingerprint)

\* the (title, author, isbn) guesses the router can make from the spines
Guesses == { [title |-> <<"D">>, author |-> <<"H">>, isbn |-> <<"9">>] }

MetaKeys == { meta_key(make_fingerprint(g.title, g.author, g.isbn)) : g \in Guesses }

Keys == ScanKeys \cup MetaKeys

\* an entry of the key-value store: json.dumps(value) with its expiry
Entry(value, ttl) == [value |-> value, ttl |-> ttl]


\* cache_get (helpers.py 22-30).  The gateway picks its branch by
\* hasattr(r, "get"), which holds for the synchronous client and for the
\* asyncio client alike: with the asyncio client r.get(key) is an un-awaited
\* coroutine and json.loads(raw) raises TypeError.  With the synchronous
\* client a backend error raises out of r.get.  Nothing is caught.
\* The answer is [raised, value]: value is json.loads(raw) if raw else None.
cache_get(client, store, key, fault) ==
    IF client = "async" \/ fault
    THEN [raised |-> TRUE, value |-> None]
    ELSE [raised |-> FALSE,
          value |-> IF IsSome(store[key]) THEN Some(Get(store[key]).value) ELSE None]

\* cache_set (helpers.py 12-19).  hasattr(r, "setex") holds for both clients:
\* with the asyncio client the coroutine r.setex(...) is never awaited and
\* nothing is stored; with the synchronous client a backend error raises.
\* The answer is [raised, store].
cache_set(client, store, key, value, ttl, fault) ==
    IF client = "async"
    THEN [raised |-> FALSE, store |-> store]
    ELSE IF fault
    THEN [raised |-> TRUE, store |-> store]
    ELSE [raised |-> FALSE,
          store |-> [store EXCEPT ![key] = Some(Entry(value, ttl))]]

\* Truthy for a gateway whose lookups never count as a hit
Truthy_never(cached) == FALSE

\* `if cached:` -- cached is None or the dict {"spines": [...]}, and a dict
\* with a key is true whatever the length of its list
Truthy(cached) == IsSome(cached)

(* ------------------------ services/cost_guard.py ----------------------- *)
\* record_spend: r.incrbyfloat(month key, usd); raises on a backend error of
\* the synchronous client, is a never-awaited coroutine with the asyncio one
record_spend(client, fault) == [raised |-> client = "sync" /\ fault]

(* -------------------------- services/vision.py ------------------------- *)
\* base64 size of the image over max_size_mb (vision.py 30-35)
TooLarge(b) == b = "B"

\* the re-encoded bytes of the resized image (vision.py 61-70)
Resized(b) == "resized(" \o b \o ")"

\* _downscale_image_if_needed: the original when it fits or when PIL raises
\* (vision.py 82-84), the resized bytes otherwise
_downscale_image_if_needed(image_bytes, pil_ok) ==
    IF ~TooLarge(image_bytes) THEN image_bytes
    ELSE IF pil_ok THEN Resized(image_bytes)
    ELSE image_bytes

(* ------------------------ adapters/groq_vision.py ---------------------- *)
\* a message content that is the JSON document between two ``` fences
Fenced(d) == [kind |-> "fenced", data |-> d]

\* what the chat completion call can do: raise (request error, timeout,
\* non-2xx), answer with text that is not JSON, answer with a JSON document,
\* or answer with a JSON document inside a code fence
GroqResponses ==
    { [kind |-> "exception", data |-> [spines |-> <<>>]],
      [kind |-> "not_json", data |-> [spines |-> <<>>]] }
    \cup { [kind |-> "json", data |-> d] : d \in ValidDocs \cup InvalidDocs }
    \cup { Fenced(d) : d \in ValidDocs }

\* GroqVisionAdapter.scan: Some(SpineResult), or None for HTTPException(502);
\* json.loads is applied to the message content as it is (line 80), and a
\* content that starts with a fence is not JSON
GroqVisionAdapter_scan(resp) ==
    IF resp.kind = "json" THEN SpineResult_parse_obj(resp.data) ELSE None

(* ----------------------- adapters/google_vision.py --------------------- *)
\* a text annotation: its description and whether a usable bounding polygon
\* came with it (at least two vertices, positive image extent)
Annotation(description, boxed) == [description |-> description, boxed |-> boxed]

\* what the images:annotate call can do: fail, or answer with textAnnotations
\* (the first one is the full text)
GcvResponses ==
    { [kind |-> "exception", textAnnotations |-> <<>>],
      [kind |-> "json", textAnnotations |-> <<>>],
      [kind |-> "json", textAnnotations |->
          <<Annotation(<<"D", "u", "n", "e">>, TRUE), Annotation(<<"D", "u">>, TRUE)>>],
      [kind |-> "json", textAnnotations |->
          <<Annotation(<<"D", "u", "n", "e">>, TRUE),
            Annotation(<<"D", "u", "n", "e", " ">>, TRUE)>>] }

\* google_vision.py 65-98: the fragments handed to the aggregation model
Candidates(tanns) ==
    IF Len(tanns) > 1
    THEN SelectSeq(Tail(tanns),
            LAMBDA t : Strip(t.description) # <<>> /\ Len(Strip(t.description)) > 2
                       /\ t.boxed /\ tanns[1].boxed)
    ELSE <<>>

(* ------------------------ adapters/nvidia_model.py --------------------- *)
NimResponses == GroqResponses

\* NIMAdapter.aggregate: Some(SpineResult), or None for HTTPException; the
\* text between the first two fences is taken when there is a fence
\* (nvidia_model.py 125-136)
NIMAdapter_aggregate(resp) ==
    IF resp.kind \in {"json", "fenced"} THEN SpineResult_parse_obj(resp.data) ELSE None


(* ------------------------------- state --------------------------------- *)
VARIABLES
    client,     \* the store client behind get_redis(): "sync" or "async"
    gcv_key,    \* GoogleVisionAdapter.key is set
    redis,      \* the key-value store: key -> None or Some(entry)
    req,        \* the request handled in each slot
    scans,      \* number of requests received so far
    h_returned  \* per scan key: the results returned by scans since the
                \* entry of the key last expired

scan_vars == <<client, gcv_key, redis, req, scans, h_returned>>

(* ------------------------- state of the rate limiter ------------------- *)
VARIABLES
    rl_limits,  \* settings.RATE_LIMIT_*: window name -> limit
    rl,         \* the rl: counters of the store: key -> [n, ttl]; n = 0 and
                \* ttl = 0 when the key does not exist, ttl in seconds
    chk,        \* the rate-limit check running in each slot
    rl_checks,  \* number of requests that reached the dependency so far
    rl_ticks,   \* number of times the clock was moved so far
    h_rl        \* per counter key, since the key last came to exist: incs,
                \* the number of INCRs; obs, the values they returned; idle,
                \* seconds since the last INCR; life, seconds of existence

rl_vars == <<rl_limits, rl, chk, rl_checks, rl_ticks, h_rl>>

(* --------------------- state of the fingerprint calls ------------------ *)
VARIABLES
    fp_args,    \* the arguments of a call of a function taken by itself
                \* (make_fingerprint, normalize_text, the selection of the
                \* catalog search, cache_set, _downscale_image_if_needed)
    fp_ret      \* None, or Some(what the call returned)

fp_vars == <<fp_args, fp_ret>>

(* ------------------ state of the POST /books/enrich handler ------------ *)
VARIABLES
    en,         \* the enrich request handled in each slot
    en_reqs     \* number of enrich requests received so far

en_vars == <<en, en_reqs>>

(* ------------------- state of the spend counters ----------------------- *)
VARIABLES
    sp_month,   \* the calendar month of datetime.utcnow()
    sp_store,   \* per spend key: None, or Some(the number the store holds)
    sp_read,    \* None, or how the last get_month_spend call ended, with the
                \* sum recorded for its key at that time
    sp_calls,   \* number of record_spend and get_month_spend calls so far
    h_sp        \* per spend key: the amounts handed to record_spend, summed

sp_vars == <<sp_month, sp_store, sp_read, sp_calls, h_sp>>

vars == <<scan_vars, rl_vars, fp_vars, en_vars, sp_vars>>

\* the order in which _check builds and walks its dict (deps.py 78-87)
RlOrder == <<"ip_min", "ip_day", "dev_hour", "dev_day">>

RlNames == {RlOrder[i] : i \in 1..Len(RlOrder)}

\* the windows in seconds (deps.py 79-86)
RlTtl(name) ==
    CASE name = "ip_min" -> 60
      [] name = "ip_day" -> 86400
      [] name = "dev_hour" -> 3600
      [] name = "dev_day" -> 86400

\* the addresses and the well-formed device ids that requests come with
Ips == {"1.1.1.1"}
Devices == {"d1", "d2"}

\* the key of a window for an address and a device (deps.py 79-86)
RlKey(name, ip, did) ==
    CASE name = "ip_min" -> "rl:ip:" \o ip \o ":m"
      [] name = "ip_day" -> "rl:ip:" \o ip \o ":d"
      [] name = "dev_hour" -> "rl:dev:" \o did \o ":h"
      [] name = "dev_day" -> "rl:dev:" \o did \o ":d"

RlKeys == { RlKey(n, ip, did) : n \in RlNames, ip \in Ips, did \in Devices }

\* a key that does not exist
NoCounter == [n |-> 0, ttl |-> 0]

NoHistory == [incs |-> 0, obs |-> {}, idle |-> 0, life |-> 0]

\* a slot before its first check
IdleChk ==
    [pc |-> 0,                  \* 0 idle, 1..4 the next window to count, 5 over
     ip |-> "", did |-> "",
     counts |-> <<>>,            \* counts[i]: what the INCR of RlOrder[i] returned
     status |-> "",              \* "admitted", "400", "429"
     violations |-> <<>>,        \* detail.violations: <<window, count, limit>>
     retry_after |-> 0]          \* the Retry-After header, 0 without one

\* the rate limiter left out: no counter, no check, no setting
RlIdle ==
    /\ rl_limits = <<>>
    /\ rl = <<>>
    /\ chk = <<>>
    /\ rl_checks = 0
    /\ rl_ticks = 0
    /\ h_rl = <<>>

\* no make_fingerprint call
FpIdle ==
    /\ fp_args = <<>>
    /\ fp_ret = <<>>

\* no enrich request
EnIdle ==
    /\ en = <<>>
    /\ en_reqs = 0

\* no record_spend and no get_month_spend call
SpIdle ==
    /\ sp_month = 0
    /\ sp_store = <<>>
    /\ sp_read = <<>>
    /\ sp_calls = 0
    /\ h_sp = <<>>

\* a slot before its first request
IdleReq ==
    [pc |-> "idle",
     image_bytes |-> "", groq_enabled |-> FALSE,
     original_key |-> "", processed_image_bytes |-> "",
     result |-> None, provider_used |-> "",
     returned |-> None,          \* what VisionService.scan returned
     i |-> 0,                    \* position of the router's loop over the spines
     detected_books |-> <<>>,
     meta |-> None,              \* the record enrich_one is about to return
     response |-> "",            \* "200" or "500"
     books |-> <<>>,             \* the books of the 200 response
     h_meta |-> <<>>,            \* per resolved spine: how enrich_one ended
     h_get |-> "",               \* "hit", "miss", "error"
     h_get_key |-> "",
     h_entry |-> None,           \* the entry under the key at the lookup
     h_prior |-> {},             \* h_returned of the key at the lookup
     h_calls |-> <<>>,           \* outbound provider calls, in order
     h_groq |-> "", h_groq_sent |-> "",
     h_gcv |-> "", h_gcv_sent |-> "",
     h_nim |-> "",
     h_ocr |-> <<>>,             \* Spine lists the OCR paths produced
     h_spend |-> <<>>,           \* record_spend calls: <<provider, "ok"|"error">>
     h_set |-> "", h_set_key |-> "", h_wrote |-> None]

\* Raise that leaves the request waiting instead of answering
Raise_hang(q) == [q EXCEPT !.pc = "waiting", !.result = None]

\* the handler raised: routers/scan.py 220-222 turns it into a 500
Raise(q) == [q EXCEPT !.pc = "done", !.response = "500", !.result = None]

Init ==
    /\ client \in {"sync", "async"}
    /\ gcv_key \in BOOLEAN
    /\ redis = [k \in Keys |-> None]
    /\ req = [r \in Reqs |-> IdleReq]
    /\ scans = 0
    /\ h_returned = [k \in ScanKeys |-> {}]
    /\ RlIdle
    /\ FpIdle
    /\ EnIdle
    /\ SpIdle

(* ------------------------- routers/scan.py entry ----------------------- *)
\* POST /scan received: the upload is read and VisionService.scan is called
Receive(r, image_bytes, groq_enabled) ==
    /\ req[r].pc \in {"idle", "done"}
    /\ scans < MaxScans
    /\ scans' = scans + 1
    /\ req' = [req EXCEPT ![r] =
           [IdleReq EXCEPT !.pc = "cache_get",
                           !.image_bytes = image_bytes,
                           !.groq_enabled = groq_enabled]]
    /\ UNCHANGED <<client, gcv_key, redis, h_returned, rl_vars, fp_vars, en_vars, sp_vars>>

(* ----------------------- routers/scan.py 104-218 ----------------------- *)
EditionWords ==
    << <<"T", "h", "i", "r", "d", " ", "E", "d", "i", "t", "i", "o", "n">>,
       <<"S", "e", "c", "o", "n", "d", " ", "E", "d", "i", "t", "i", "o", "n">>,
       <<"F", "i", "r", "s", "t", " ", "E", "d", "i", "t", "i", "o", "n">> >>

By == <<" ", "b", "y", " ">>

\* scan.py 108-128: the title and the author read off a spine text
CleanTitle(t) ==
    LET t1 == Strip(Replace(Replace(Replace(t, EditionWords[1], <<>>),
                                    EditionWords[2], <<>>),
                            EditionWords[3], <<>>))
    IN  Strip(Replace(t1, <<" ", " ">>, <<" ">>))

ParseSpine(spine) ==
    LET text == Strip(spine.text)
        at == Find(text, By)
        split == Find(Lower(text), By) # 0 /\ at # 0
    IN  [text |-> text,
         title |-> CleanTitle(IF split THEN Strip(SubSeq(text, 1, at - 1)) ELSE text),
         author |-> IF split
                    THEN Some(Strip(SubSeq(text, at + Len(By), Len(text))))
                    ELSE None]

OrEmpty(o) == IF IsSome(o) THEN Get(o) ELSE <<>>

\* scan.py 135-139 with books_meta_service.py 17-19
Partial(spine) ==
    LET p == ParseSpine(spine) IN
    [title |-> Strip(p.title),
     author |-> Strip(OrEmpty(p.author)),
     isbn |-> Strip(OrEmpty(spine.candidate_isbn))]

Spines(q) == Get(q.returned)[1].spines

CurrentSpine(q) == Spines(q)[q.i]

\* scan.py 144-173: the book built for a spine from the catalog record, or
\* from the parsed text when there is none
Book(spine, canonical) ==
    LET p == ParseSpine(spine) IN
    IF IsSome(canonical)
    THEN [title |-> Get(canonical).title, author |-> Get(canonical).author,
          publisher |-> Get(canonical).publisher, isbn |-> Get(canonical).isbn,
          original_text |-> p.text]
    ELSE [title |-> p.title, author |-> p.author, publisher |-> None,
          isbn |-> spine.candidate_isbn, original_text |-> p.text]

\* scan.py 192-196
has_proper_info(book) ==
    \/ Strip(book.title) # <<>>
    \/ IsSome(book.author) /\ Strip(Get(book.author)) # <<>>
    \/ IsSome(book.publisher) /\ Strip(Get(book.publisher)) # <<>>

\* scan.py 104-106, 188-218: skip the blank spines; at the next other spine
\* enrich_one starts, after the last one the books are filtered and sent
RECURSIVE Advance(_)
Advance(q) ==
    IF q.i > Len(Spines(q))
    THEN [q EXCEPT !.pc = "done", !.response = "200",
                   !.books = SelectSeq(q.detected_books, has_proper_info),
                   !.detected_books = <<>>, !.meta = None, !.i = 0]
    ELSE IF Strip(CurrentSpine(q).text) = <<>>
    THEN Advance([q EXCEPT !.i = q.i + 1])
    ELSE [q EXCEPT !.pc = "meta_get", !.meta = None]

\* VisionService.scan returned to the router
Returned(q) == Advance([q EXCEPT !.i = 1])

\* scan.py 144-173: the spine's book is appended
AddBook(q, canonical, how) ==
    Advance([q EXCEPT !.detected_books = Append(@, Book(CurrentSpine(q), canonical)),
                      !.h_meta = Append(@, how),
                      !.i = q.i + 1])

\* scan.py 180-182: `except Exception: continue` leaves the spine out
DropSpine(q, how) ==
    Advance([q EXCEPT !.h_meta = Append(@, how), !.i = q.i + 1])

(* -------------------- services/books_meta_service.py ------------------- *)
\* what a catalog call can come to: a record, nothing (also on a request
\* error, which the adapters catch), or an exception out of the mapping code
CatalogAnswers == {"found", "none", "raise"}

\* the records the catalogs can answer with (adapters/books_meta.py): the
\* fingerprint is made from the catalog's own title, author and ISBN
CanonicalBook(title, author, isbn, publisher) ==
    [title |-> title, author |-> author, isbn |-> isbn, publisher |-> publisher,
     fingerprint |-> make_fingerprint(title, OrEmpty(author), OrEmpty(isbn))]

\* the record of an ISBN lookup, and the record of a search hit whose
\* document lists no ISBN
IsbnBook == CanonicalBook(<<"D", "u", "n", "e">>, Some(<<"H">>), Some(<<"9">>), Some(<<"P">>))
SearchBook == CanonicalBook(<<"D", "u", "n", "e">>, Some(<<"H">>), None, None)

\* METADATA_TTL_SECS (config.py 57)
METADATA_TTL_SECS == 5 * 24 * 3600

MetaKey(q) ==
    LET p == Partial(CurrentSpine(q)) IN
    meta_key(make_fingerprint(p.title, p.author, p.isbn))

\* the end of enrich_one once the catalogs found nothing (lines 43-45)
NoRecord(q) == AddBook(q, None, "none")

\* books_meta_service.py 36-41: GoogleBooksAdapter.by_isbn or .search
Gb(q, answer) ==
    IF answer = "found"
    THEN [q EXCEPT !.pc = "meta_set",
                   !.meta = Some(IF Partial(CurrentSpine(q)).isbn # <<>>
                                 THEN IsbnBook ELSE SearchBook)]
    ELSE NoRecord(q)

\* books_meta_service.py 31, 33: OpenLibraryAdapter.search; without title and
\* author it returns None before any request
OlSearch(r, q) ==
    LET p == Partial(CurrentSpine(q))
        asked == p.title # <<>> \/ p.author # <<>>
    IN  \E answer \in CatalogAnswers :
            IF asked /\ answer = "raise"
            THEN req' = [req EXCEPT ![r] = DropSpine(q, "catalog_error")]
            ELSE IF asked /\ answer = "found"
            THEN req' = [req EXCEPT ![r] =
                            [q EXCEPT !.pc = "meta_set", !.meta = Some(SearchBook)]]
            ELSE \E gb \in CatalogAnswers \ {"raise"} :
                     req' = [req EXCEPT ![r] = Gb(q, gb)]

\* books_meta_service.py 31: OpenLibraryAdapter.by_isbn; without a digit in
\* the ISBN it returns None before any request
OlByIsbn(r, q) ==
    LET asked == normalize_isbn(Partial(CurrentSpine(q)).isbn) # <<>>
    IN  \E answer \in CatalogAnswers \ {"raise"} :
            IF asked /\ answer = "found"
            THEN req' = [req EXCEPT ![r] =
                            [q EXCEPT !.pc = "meta_set", !.meta = Some(IsbnBook)]]
            ELSE OlSearch(r, q)

\* books_meta_service.py 20-41: the cache check of enrich_one and, on a
\* miss, the catalog calls, which touch nothing but the request's own state
MetaGet(r, fault) ==
    /\ req[r].pc = "meta_get"
    /\ LET q == req[r]
           got == cache_get(client, redis, MetaKey(q), fault)
       IN  IF got.raised
           THEN req' = [req EXCEPT ![r] = DropSpine(q, "get_error")]
           ELSE IF Truthy(got.value)
           THEN req' = [req EXCEPT ![r] = AddBook(q, got.value, "cached")]
           ELSE IF Partial(CurrentSpine(q)).isbn # <<>>
           THEN OlByIsbn(r, q)
           ELSE OlSearch(r, q)
    /\ UNCHANGED <<client, gcv_key, redis, scans, h_returned, rl_vars, fp_vars, en_vars, sp_vars>>

\* books_meta_service.py 43-45: write the record, then return it
MetaSet(r, fault) ==
    /\ req[r].pc = "meta_set"
    /\ LET q == req[r]
           put == cache_set(client, redis, MetaKey(q), Get(q.meta),
                            METADATA_TTL_SECS, fault)
       IN  /\ redis' = put.store
           /\ req' = [req EXCEPT ![r] =
                  IF put.raised THEN DropSpine(q, "set_error")
                  ELSE AddBook(q, q.meta, "resolved")]
    /\ UNCHANGED <<client, gcv_key, scans, h_returned, rl_vars, fp_vars, en_vars, sp_vars>>

(* ----------------------- VisionService.scan steps ---------------------- *)
\* OriginalKey that leaves the flag of the request out of the key
OriginalKey_noflag(q) == scan_key(_sha256(q.image_bytes), TRUE)

\* the key of the lookup and of the write (vision.py 96)
OriginalKey(q) == scan_key(_sha256(q.image_bytes), q.groq_enabled)

\* ServeCached that goes on to write the entry again
ServeCached_rewrite(q, cached) ==
    [q EXCEPT !.pc = "cache_set", !.result = SpineResult_parse_obj(Get(cached)),
              !.provider_used = "cached", !.h_get = "hit"]

\* vision.py 98-102: a hit returns the cached list tagged "cached"
ServeCached(q, cached) ==
    LET parsed == SpineResult_parse_obj(Get(cached)) IN
    IF IsSome(parsed)
    THEN Returned([q EXCEPT !.result = parsed,
                            !.provider_used = "cached",
                            !.returned = Some(<<Get(parsed), "cached">>),
                            !.h_get = "hit"])
    ELSE Raise([q EXCEPT !.h_get = "hit"])

\* vision.py 104-111, 140-141: a miss adapts the image and picks the provider
AfterMiss(q, pil_ok) ==
    [q EXCEPT !.pc = IF q.groq_enabled THEN "groq" ELSE "gcv",
              !.processed_image_bytes =
                  _downscale_image_if_needed(q.image_bytes, pil_ok),
              !.h_get = "miss"]

\* vision.py 96-105
CacheGet(r, fault, pil_ok) ==
    /\ req[r].pc = "cache_get"
    /\ LET key == OriginalKey(req[r])
           q == [req[r] EXCEPT !.original_key = key, !.h_get_key = key,
                               !.h_entry = redis[key],
                               !.h_prior = h_returned[key]]
           got == cache_get(client, redis, key, fault)
       IN  /\ req' = [req EXCEPT ![r] =
                  IF got.raised THEN Raise([q EXCEPT !.h_get = "error"])
                  ELSE IF Truthy(got.value) THEN ServeCached(q, got.value)
                  ELSE AfterMiss(q, pil_ok)]
           /\ h_returned' =
                  IF ~got.raised /\ Truthy(got.value)
                     /\ IsSome(SpineResult_parse_obj(Get(got.value)))
                  THEN [h_returned EXCEPT ![key] =
                           @ \cup {Get(SpineResult_parse_obj(Get(got.value)))}]
                  ELSE h_returned
    /\ UNCHANGED <<client, gcv_key, redis, scans, rl_vars, fp_vars, en_vars, sp_vars>>

\* FallBack without the except clause of vision.py 125
FallBack_raises(q) == Raise(q)

\* FallBack that calls the primary provider once more
FallBack_retry(q) == [q EXCEPT !.pc = "groq"]

\* vision.py 125-132: whatever the primary raised, go on with the secondary
FallBack(q) == [q EXCEPT !.pc = "gcv"]

\* vision.py 122-125: record_spend("groq") is inside the try block, so a
\* backend error there also falls back to the secondary provider
RecordSpendGroq(q, fault) ==
    IF record_spend(client, fault).raised
    THEN FallBack([q EXCEPT !.h_spend = Append(@, <<"groq", "error">>)])
    ELSE [q EXCEPT !.pc = "cache_set", !.h_spend = Append(@, <<"groq", "ok">>)]

\* vision.py 112-125: the try block of the primary provider: the call with
\* the adapted bytes, then the spend record
GroqScan(r, resp) ==
    /\ req[r].pc = "groq"
    /\ LET q == [req[r] EXCEPT !.h_calls = Append(@, "groq"),
                               !.h_groq_sent = req[r].processed_image_bytes]
           res == GroqVisionAdapter_scan(resp)
       IN  IF IsSome(res)
           THEN \E fault \in BOOLEAN :
                    req' = [req EXCEPT ![r] =
                        RecordSpendGroq([q EXCEPT !.result = res,
                                                  !.provider_used = "groq",
                                                  !.h_groq = "ok",
                                                  !.h_ocr = Append(@, Get(res))],
                                        fault)]
           ELSE req' = [req EXCEPT ![r] = FallBack([q EXCEPT !.h_groq = "failed"])]
    /\ UNCHANGED <<client, gcv_key, redis, scans, h_returned, rl_vars, fp_vars, en_vars, sp_vars>>

\* SecondaryFailed with a handler that answers with an empty result
SecondaryFailed_empty(q) ==
    [q EXCEPT !.pc = "cache_set", !.result = Some([spines |-> <<>>]),
              !.provider_used = "gcv"]

\* vision.py 131-132, 144-145: nothing catches what the secondary chain
\* raises, scan ends with the exception
SecondaryFailed(q) == Raise(q)

\* vision.py 138, 151: record_spend("gcv") is outside any try block
RecordSpendGcv(q, fault) ==
    IF record_spend(client, fault).raised
    THEN Raise([q EXCEPT !.h_spend = Append(@, <<"gcv", "error">>)])
    ELSE [q EXCEPT !.pc = "cache_set", !.h_spend = Append(@, <<"gcv", "ok">>)]

\* google_vision.py 106-108 with nvidia_model.py 15-163: the aggregation
\* call that GoogleVisionAdapter.scan makes with the fragments
NimAggregate(r, q) ==
    \E resp \in NimResponses :
        LET q1 == [q EXCEPT !.h_calls = Append(@, "nim")]
            res == NIMAdapter_aggregate(resp)
        IN  IF IsSome(res)
            THEN \E fault \in BOOLEAN :
                     req' = [req EXCEPT ![r] =
                         RecordSpendGcv([q1 EXCEPT !.result = res,
                                                   !.provider_used = "gcv",
                                                   !.h_nim = "ok",
                                                   !.h_ocr = Append(@, Get(res))],
                                        fault)]
            ELSE req' = [req EXCEPT ![r] =
                            SecondaryFailed([q1 EXCEPT !.h_nim = "failed"])]

\* GcvBytes that hands over the bytes adapted for the primary provider
GcvBytes_processed(q) == q.processed_image_bytes

\* vision.py 132, 145: self.gcv.scan(image_bytes), the bytes of the upload
GcvBytes(q) == q.image_bytes

\* vision.py 131-138, 144-151 with google_vision.py 28-110: the secondary
\* provider: the document OCR call with the original bytes, the aggregation
\* call, then the spend record; every failure of the adapter leaves scan as
\* an exception, and so does an answer without usable fragments (line 110)
GcvScan(r, resp) ==
    /\ req[r].pc = "gcv"
    /\ LET q == [req[r] EXCEPT !.h_calls = Append(@, "gcv"),
                               !.h_gcv_sent = GcvBytes(req[r])]
       IN  IF ~gcv_key
           THEN req' = [req EXCEPT ![r] =
                           SecondaryFailed([req[r] EXCEPT !.h_gcv = "no_key"])]
           ELSE IF resp.kind # "json"
           THEN req' = [req EXCEPT ![r] =
                           SecondaryFailed([q EXCEPT !.h_gcv = "failed"])]
           ELSE IF Candidates(resp.textAnnotations) = <<>>
           THEN req' = [req EXCEPT ![r] =
                           SecondaryFailed([q EXCEPT !.h_gcv = "no_text"])]
           ELSE NimAggregate(r, [q EXCEPT !.h_gcv = "text"])
    /\ UNCHANGED <<client, gcv_key, redis, scans, h_returned, rl_vars, fp_vars, en_vars, sp_vars>>

\* WriteKey computed from the bytes that were sent to the provider
WriteKey_processed(q) == scan_key(_sha256(q.processed_image_bytes), q.groq_enabled)

\* WriteTtl with the metadata time to live
WriteTtl_meta == METADATA_TTL_SECS

\* the key and the time to live of the write (vision.py 160)
WriteKey(q) == q.original_key

WriteTtl == SCAN_TTL

\* vision.py 160-161: write the result, then return it
CacheSet(r, fault) ==
    /\ req[r].pc = "cache_set"
    /\ LET q == req[r]
           key == WriteKey(q)
           value == SpineResult_dict(Get(q.result))
           put == cache_set(client, redis, key, value, WriteTtl, fault)
       IN  /\ redis' = put.store
           /\ req' = [req EXCEPT ![r] =
                  IF put.raised
                  THEN Raise([q EXCEPT !.h_set = "error", !.h_set_key = key])
                  ELSE Returned([q EXCEPT
                                 !.returned = Some(<<Get(q.result), q.provider_used>>),
                                 !.h_set = "ok", !.h_set_key = key,
                                 !.h_wrote = put.store[key]])]
           /\ h_returned' =
                  IF put.raised THEN h_returned
                  ELSE [h_returned EXCEPT ![key] = @ \cup {Get(q.result)}]
    /\ UNCHANGED <<client, gcv_key, scans, rl_vars, fp_vars, en_vars, sp_vars>>

\* the time to live of an entry runs out
Expire(k) ==
    /\ IsSome(redis[k])
    /\ redis' = [redis EXCEPT ![k] = None]
    /\ h_returned' = [j \in ScanKeys |-> IF j = k THEN {} ELSE h_returned[j]]
    /\ UNCHANGED <<client, gcv_key, req, scans, rl_vars, fp_vars, en_vars, sp_vars>>

Next ==
    \/ \E r \in Reqs, b \in ImageBytes, g \in BOOLEAN : Receive(r, b, g)
    \/ \E r \in Reqs, fault \in BOOLEAN : CacheGet(r, fault, TRUE)
    \/ \E r \in Reqs, resp \in GroqResponses : GroqScan(r, resp)
    \/ \E r \in Reqs, resp \in GcvResponses : GcvScan(r, resp)
    \/ \E r \in Reqs, fault \in BOOLEAN : CacheSet(r, fault)
    \/ \E r \in Reqs, fault \in BOOLEAN : MetaGet(r, fault)
    \/ \E r \in Reqs, fault \in BOOLEAN : MetaSet(r, fault)
    \/ \E k \in Keys : Expire(k)

Spec == Init /\ [][Next]_vars


(* ------------------------------ properties ----------------------------- *)
SecondaryEntered(q) == q.h_gcv # ""

SecondaryChainFailed(q) ==
    q.h_gcv \in {"no_key", "failed", "no_text"} \/ q.h_nim = "failed"

\* C1: once the primary provider call of a scan has failed, the scan is
\* either about to call the secondary provider, without any response sent,
\* or it has called it; the primary is only called when it is enabled and
\* the lookup was a miss.
C1_PrimaryFailureFallsBack ==
    \A r \in Reqs :
        /\ req[r].h_groq # "" => req[r].groq_enabled /\ req[r].h_get = "miss"
        /\ req[r].h_groq = "failed" =>
              \/ req[r].pc = "gcv" /\ req[r].response = ""
              \/ SecondaryEntered(req[r])

\* a scan whose primary call failed ended with the secondary chain's list
C1_Witness ==
    \E r \in Reqs :
        /\ req[r].h_groq = "failed"
        /\ req[r].response = "200"
        /\ req[r].provider_used = "gcv"

\* C2: a scan whose secondary chain failed is over with a 500 response, has
\* returned no Spine list, has no books and has made no cache write.
C2_ChainFailureIsError ==
    \A r \in Reqs :
        SecondaryChainFailed(req[r]) =>
            /\ req[r].pc = "done"
            /\ req[r].response = "500"
            /\ req[r].returned = None
            /\ req[r].books = <<>>
            /\ req[r].h_set = ""
            /\ req[r].h_wrote = None

\* the primary failed and then the aggregation call failed
C2_Witness ==
    \E r \in Reqs :
        /\ req[r].h_groq = "failed"
        /\ req[r].h_nim = "failed"
        /\ req[r].response = "500"

\* C3: a scan that found an entry under its key at the lookup (and whose
\* read did not raise) returned exactly the list of that entry, tagged
\* "cached", and made no provider call, no spend record and no cache write.
C3_CacheHitIsTerminal ==
    \A r \in Reqs :
        IsSome(req[r].h_entry) /\ req[r].h_get \in {"hit", "miss"} =>
            /\ req[r].h_get = "hit"
            /\ req[r].h_get_key = scan_key(_sha256(req[r].image_bytes), req[r].groq_enabled)
            /\ req[r].returned =
                 Some(<<[spines |-> [i \in 1..Len(Get(req[r].h_entry).value.spines) |->
                                       ToSpine(Get(req[r].h_entry).value.spines[i])]],
                        "cached">>)
            /\ req[r].h_groq = "" /\ req[r].h_gcv = "" /\ req[r].h_nim = ""
            /\ req[r].h_calls = <<>>
            /\ req[r].h_spend = <<>>
            /\ req[r].h_set = "" /\ req[r].h_wrote = None

\* a scan was served an entry that holds an empty list, and is over
C3_Witness ==
    \E r \in Reqs :
        /\ req[r].h_get = "hit"
        /\ req[r].pc = "done"
        /\ Get(req[r].h_entry).value.spines = <<>>

\* C4 as stated: a scan that returns a list returns the list of every scan
\* of the same bytes and flag that had returned before its lookup and whose
\* entry has not expired since.
C4_SecondReturnsFirstsList ==
    \A r \in Reqs :
        IsSome(req[r].returned) =>
            \A first \in req[r].h_prior : Get(req[r].returned)[1] = first

\* C4 as amended: when scans of the same bytes and flag have returned before
\* the lookup and the entry has not expired since, a working read is a hit,
\* and a scan that returns a list returns it from the cache and returns the
\* list of one of those scans: of the only one when there is only one list.
C4_CacheConvergence ==
    \A r \in Reqs :
        req[r].h_prior # {} =>
            /\ req[r].h_get \in {"hit", "miss"} => req[r].h_get = "hit"
            /\ IsSome(req[r].returned) =>
                  /\ Get(req[r].returned)[2] = "cached"
                  /\ Get(req[r].returned)[1] \in req[r].h_prior
                  /\ Get(req[r].returned)[1] =
                        Get(SpineResult_parse_obj(Get(req[r].h_entry).value))

\* a scan was served a list with a candidate ISBN that an earlier scan of
\* the same bytes and flag had returned from the secondary chain
C4_Witness ==
    \E r, f \in Reqs :
        /\ r # f
        /\ req[f].returned # None /\ Get(req[f].returned)[2] = "gcv"
        /\ req[f].image_bytes = req[r].image_bytes
        /\ req[f].groq_enabled = req[r].groq_enabled
        /\ req[r].returned = Some(<<Get(req[f].returned)[1], "cached">>)
        /\ Get(req[r].returned)[1].spines # <<>>

\* C5: the key of the lookup and the key of the write of a scan are the
\* key of the sha256 of the uploaded bytes and the flag, never the key of the
\* bytes that were sent to the primary provider, whichever provider answered.
C5_OneKeyFromOriginalBytes ==
    \A r \in Reqs :
        LET q == req[r]
            k == scan_key(_sha256(q.image_bytes), q.groq_enabled)
        IN  /\ q.h_get_key # "" => q.h_get_key = k
            /\ q.h_set_key # "" =>
                  /\ q.h_set_key = k
                  /\ q.h_set_key = q.h_get_key
                  /\ q.h_groq_sent \notin {"", q.image_bytes} =>
                        q.h_set_key # scan_key(_sha256(q.h_groq_sent), q.groq_enabled)

\* a scan wrote its entry after the primary provider was sent resized bytes
C5_Witness ==
    \E r \in Reqs :
        /\ req[r].h_set = "ok"
        /\ req[r].h_groq_sent \notin {"", req[r].image_bytes}
        /\ req[r].provider_used = "groq"

\* C6: a scan that returned a list from a provider path has before that
\* written this list under the key of the uploaded bytes and the flag with a
\* time to live of 30 days.
C6_ProviderResultIsCached ==
    \A r \in Reqs :
        LET q == req[r] IN
        IsSome(q.returned) /\ Get(q.returned)[2] # "cached" =>
            /\ Get(q.returned)[2] \in {"groq", "gcv"}
            /\ q.h_set = "ok"
            /\ q.h_set_key = scan_key(_sha256(q.image_bytes), q.groq_enabled)
            /\ q.h_wrote = Some([value |-> SpineResult_dict(Get(q.returned)[1]),
                                 ttl |-> 2592000])

\* a scan returned the list of the secondary chain after the primary failed
C6_Witness ==
    \E r \in Reqs :
        /\ IsSome(req[r].returned)
        /\ Get(req[r].returned)[2] = "gcv"
        /\ req[r].h_groq = "failed"
        /\ IsSome(req[r].h_wrote)

\* C7: a scan whose document OCR call succeeded without any usable text
\* does not end in an error: it returns an empty Spine list.
C7_NoTextIsEmptySuccess ==
    \A r \in Reqs :
        req[r].h_gcv = "no_text" /\ req[r].pc = "done" =>
            /\ req[r].response = "200"
            /\ IsSome(req[r].returned)
            /\ Get(req[r].returned)[1].spines = <<>>

\* C8: a read on which the backend of the synchronous client failed is
\* treated as a miss: the scan goes on to a provider, and the metadata
\* resolution goes on to the catalogs.
C8_ReadErrorIsMiss ==
    client = "sync" =>
    \A r \in Reqs :
        /\ req[r].h_get = "error" =>
              \/ req[r].pc \in {"groq", "gcv"}
              \/ req[r].h_groq # ""
              \/ req[r].h_gcv # ""
        /\ \A i \in 1..Len(req[r].h_meta) : req[r].h_meta[i] # "get_error"

\* C9: a write that raised is swallowed: the scan has returned its list,
\* and the metadata resolution has returned its record.
C9_WriteErrorIsSwallowed ==
    \A r \in Reqs :
        /\ req[r].h_set = "error" => IsSome(req[r].returned)
        /\ \A i \in 1..Len(req[r].h_meta) : req[r].h_meta[i] # "set_error"

\* C10: with the synchronous client, a request ends with a 500 only when
\* every OCR path it could take has failed: no OCR path of it produced a
\* Spine list, and its secondary chain failed.
C10_OnlyExhaustionFails ==
    client = "sync" =>
    \A r \in Reqs :
        req[r].response = "500" =>
            /\ req[r].h_ocr = <<>>
            /\ SecondaryChainFailed(req[r])


\* C24: in the 200 response of a scan every spine of the list with non-empty
\* text whose parsed record has a title, an author or a publisher is among
\* the books, whether its metadata resolution gave a record, nothing or an
\* error.
C24_EveryUsableSpineReturned ==
    \A r \in Reqs :
        req[r].response = "200" /\ IsSome(req[r].returned) =>
            \A i \in 1..Len(Spines(req[r])) :
                LET spine == Spines(req[r])[i] IN
                Strip(spine.text) # <<>> /\ has_proper_info(Book(spine, None)) =>
                    \E n \in 1..Len(req[r].books) :
                        req[r].books[n].original_text = Strip(spine.text)

\* C25: a scan answered with 200 from the entry that an earlier scan of the
\* same bytes and flag wrote, this one answered with 200 as well, returns the
\* books of the earlier one and makes no outbound call: no OCR call, no
\* aggregation call and, for each of its spines, no catalog call.
C25_SecondScanMakesNoCall ==
    \A first, second \in Reqs :
        /\ first # second
        /\ req[first].response = "200" /\ req[second].response = "200"
        /\ req[first].image_bytes = req[second].image_bytes
        /\ req[first].groq_enabled = req[second].groq_enabled
        /\ req[first].h_get = "miss" /\ req[first].h_set = "ok"
        /\ req[second].h_get = "hit" /\ req[second].h_entry = req[first].h_wrote
        =>
        /\ req[second].h_calls = <<>>
        /\ \A i \in 1..Len(req[second].h_meta) : req[second].h_meta[i] = "cached"
        /\ req[second].books = req[first].books

\* C26: once VisionService.scan has returned a provider's result, a spend
\* entry has been recorded for every provider called in the request: for the
\* primary provider also when its call failed and the secondary chain gave
\* the result.
C26_SpendRecordedForEveryProviderCalled ==
    \A r \in Reqs :
        IsSome(req[r].returned) /\ req[r].h_get = "miss" =>
            \A n \in 1..Len(req[r].h_calls) :
                req[r].h_calls[n] \in {"groq", "gcv"} =>
                    \E m \in 1..Len(req[r].h_spend) :
                        req[r].h_spend[m] = <<req[r].h_calls[n], "ok">>

\* a bounding box (in tenths) with x, y, w, h all within [0,1]
WithinUnit(b) ==
    \A c \in {b.x, b.y, b.w, b.h} : c >= 0 /\ c <= 10

\* C30: every Spine of a list that scan returned, from a provider or from
\* the cache, has a text that is non-empty after trimming and a bounding box
\* that is null or has x, y, w, h all within [0,1].
C30_ReturnedSpinesAreWellFormed ==
    \A r \in Reqs :
        IsSome(req[r].returned) =>
            \A i \in 1..Len(Spines(req[r])) :
                /\ Strip(Spines(req[r])[i].text) # <<>>
                /\ \/ Spines(req[r])[i].bbox = None
                   \/ WithinUnit(Get(Spines(req[r])[i].bbox))

\* a document of the expected shape can be had from the response
Obtainable(resp) ==
    resp.kind \in {"json", "fenced"} /\ IsSome(SpineResult_parse_obj(resp.data))

\* C32: a response of the primary provider whose JSON document is inside a
\* code fence is parsed by taking the document out of the fence and counts as
\* a successful primary result; the primary call counts as failed, and the
\* scan falls back, only when no valid document can be had from the response.
C32_FencedJsonIsAccepted ==
    [][\A r \in Reqs, resp \in GroqResponses :
           GroqScan(r, resp) =>
               /\ Obtainable(resp) =>
                     /\ req'[r].h_groq = "ok"
                     /\ req'[r].h_ocr = <<Get(SpineResult_parse_obj(resp.data))>>
               /\ req'[r].h_groq = "failed" => ~Obtainable(resp)]_vars

\* the outbound calls of a request that went to the secondary chain
SecondaryCalls(q) ==
    { n \in 1..Len(q.h_calls) : q.h_calls[n] \in {"gcv", "nim"} }

\* C34: the secondary chain is invoked in a scan only if the primary provider
\* is disabled for the request or its call failed: once the primary provider
\* has returned a valid Spine list, the request makes no secondary OCR call
\* and no aggregation call, whatever happens afterwards.
C34_SecondaryOnlyAfterPrimaryFailure ==
    \A r \in Reqs :
        /\ req[r].h_groq = "ok" => SecondaryCalls(req[r]) = {}
        /\ SecondaryCalls(req[r]) # {} =>
              ~req[r].groq_enabled \/ req[r].h_groq = "failed"

\* C35: when the groqEnabled flag of a request is false the primary provider
\* is never called in its scan and the first outbound call is the one to the
\* secondary provider; in every scan the secondary provider receives the
\* bytes of the upload, never the downscaled ones.
C35_DisabledPrimaryIsSkipped ==
    \A r \in Reqs :
        LET q == req[r] IN
        /\ ~q.groq_enabled =>
              /\ q.h_groq = "" /\ q.h_groq_sent = ""
              /\ \A n \in 1..Len(q.h_calls) : q.h_calls[n] # "groq"
              /\ q.h_calls # <<>> => q.h_calls[1] = "gcv"
        /\ q.h_gcv_sent # "" =>
              /\ q.h_gcv_sent = q.image_bytes
              /\ q.processed_image_bytes # q.image_bytes =>
                    q.h_gcv_sent # q.processed_image_bytes

\* a scan with the flag false got its list from the secondary chain, and a
\* scan with the flag true sent the resized bytes to the primary provider
\* and the upload to the secondary one
C35_Witness ==
    \E r, o \in Reqs :
        /\ ~req[r].groq_enabled /\ req[r].h_calls = <<"gcv", "nim">>
        /\ req[r].response = "200"
        /\ req[o].groq_enabled /\ req[o].h_groq_sent = Resized(req[o].image_bytes)
        /\ req[o].h_gcv_sent = req[o].image_bytes

\* the step writes the entry of scan key k: it is the cache write of a scan
\* of the bytes and the flag of k that missed the cache, got its list from a
\* provider and returns this list
WrittenByOwnScan(k) ==
    \E r \in Reqs :
        LET q == req[r] IN
        /\ q.pc = "cache_set" /\ q.h_get = "miss"
        /\ k = scan_key(_sha256(q.image_bytes), q.groq_enabled)
        /\ q.h_ocr # <<>> /\ Get(q.result) = q.h_ocr[Len(q.h_ocr)]
        /\ q.provider_used \in {"groq", "gcv"}
        /\ Get(redis'[k]).value = SpineResult_dict(Get(q.result))
        /\ req'[r].returned = Some(<<Get(q.result), q.provider_used>>)

\* the request was served the entry of the key of its own bytes and flag
ServedOwnEntry(q) ==
    /\ q.h_get_key = scan_key(_sha256(q.image_bytes), q.groq_enabled)
    /\ IsSome(q.h_entry)
    /\ IsSome(q.returned) =>
          SpineResult_dict(Get(q.returned)[1]) = Get(q.h_entry).value

\* C38: after any interleaving of scans, every value stored under a scan: key
\* is the whole Spine list that a provider path of a scan of exactly these
\* bytes and this flag returned: no failed scan, no scan served from the
\* cache and no scan of other bytes or of the other flag writes under the
\* key, and a request is never served an entry of the other flag.
C38_ScanEntriesComeFromOwnScans ==
    [][/\ \A k \in ScanKeys :
              redis'[k] # redis[k] /\ IsSome(redis'[k]) => WrittenByOwnScan(k)
       /\ \A r \in Reqs :
              req'[r].h_get = "hit" => ServedOwnEntry(req'[r])]_vars

\* both flags have their entry for the same bytes, and a request with the
\* flag false was served from the cache
C38_Witness ==
    \E r \in Reqs, b \in ImageBytes :
        /\ IsSome(redis[scan_key(_sha256(b), TRUE)])
        /\ IsSome(redis[scan_key(_sha256(b), FALSE)])
        /\ req[r].image_bytes = b /\ ~req[r].groq_enabled
        /\ req[r].h_get = "hit" /\ req[r].response = "200"

\* C28: a scan request calls the primary provider, the secondary OCR
\* provider and the aggregation model at most once each and in this order;
\* the secondary provider is called after the primary one only when the
\* primary step failed, and the aggregation model only after the OCR call.
C28_NoCallRepeated ==
    \A r \in Reqs :
        LET calls == req[r].h_calls IN
        /\ calls \in { <<>>, <<"groq">>, <<"groq", "gcv">>, <<"groq", "gcv", "nim">>,
                       <<"gcv">>, <<"gcv", "nim">> }
        /\ Len(calls) >= 2 /\ calls[1] = "groq" =>
              \/ req[r].h_groq = "failed"
              \/ \E m \in 1..Len(req[r].h_spend) : req[r].h_spend[m] = <<"groq", "error">>

\* a scan went through the failing primary call and the whole secondary chain
C28_Witness ==
    \E r \in Reqs :
        /\ req[r].h_calls = <<"groq", "gcv", "nim">>
        /\ req[r].h_groq = "failed"
        /\ req[r].response = "200"

(* ======================= the rate limiter (deps.py) ==================== *)
\* the scan pipeline left out
ScanIdle ==
    /\ client = "sync"
    /\ gcv_key = FALSE
    /\ redis = <<>>
    /\ req = <<>>
    /\ scans = 0
    /\ h_returned = <<>>

\* the settings the limiter runs with (config.py 64-67 are the defaults)
RlSettings ==
    [RlNames -> {1, 9}] \cup {[n \in RlNames |-> 2]}

\* what the X-Device-Id header can hold; device_id (deps.py 48-55) lets the
\* well-formed ones through
DeviceHeaders == Devices \cup {"bad"}

device_id(did) == IF did \in Devices THEN Some(did) ELSE None

\* the steps by which the clock is moved, in seconds
TickSizes == {59, 60, 3600, 86400}

RlInit ==
    /\ ScanIdle
    /\ FpIdle
    /\ EnIdle
    /\ rl_limits \in RlSettings
    /\ rl = [k \in RlKeys |-> NoCounter]
    /\ chk = [r \in Reqs |-> IdleChk]
    /\ rl_checks = 0
    /\ rl_ticks = 0
    /\ h_rl = [k \in RlKeys |-> NoHistory]
    /\ SpIdle

\* IncrResult that takes the reply of EXPIRE for the count
IncrResult_expire(res) == res[2]

\* deps.py 65: the count is the first reply of the pipeline
IncrResult(res) == res[1]

\* Expiry that sets the time to live on the first increment only
Expiry_first(old, n, expire) == IF n = 1 THEN expire ELSE old.ttl

\* deps.py 63: EXPIRE is sent with every increment
Expiry(old, n, expire) == expire

\* _incr_with_ttl (deps.py 59-65): INCR and EXPIRE in one MULTI/EXEC
_incr_with_ttl(store, key, expire) ==
    LET n == store[key].n + 1
        res == <<n, 1>>
    IN  [store |-> [store EXCEPT ![key] =
                       [n |-> n, ttl |-> Expiry(store[key], n, expire)]],
         value |-> IncrResult(res)]

\* Exceeds that refuses the request that reaches the limit
Exceeds_at(count, limit) == count >= limit

\* deps.py 98
Exceeds(count, limit) == count > limit

\* deps.py 94-99: the violated windows, in the order of the dict
Violations(q) ==
    LET all == [i \in 1..Len(q.counts) |->
                   <<RlOrder[i], q.counts[i], rl_limits[RlOrder[i]]>>]
    IN  SelectSeq(all, LAMBDA v : Exceeds(v[2], v[3]))

\* `"dev_hour" in n` and `"day" in n` for the four window names
Contains_dev_hour(n) == n = "dev_hour"
Contains_day(n) == n \in {"ip_day", "dev_day"}

\* RetryAfter in which the hour window has the last word
RetryAfter_hour(names) ==
    IF \E i \in 1..Len(names) : Contains_dev_hour(names[i]) THEN 3600
    ELSE IF \E i \in 1..Len(names) : Contains_day(names[i]) THEN 86400
    ELSE 60

\* deps.py 103-108
RetryAfter(names) ==
    IF \E i \in 1..Len(names) : Contains_day(names[i]) THEN 86400
    ELSE IF \E i \in 1..Len(names) : Contains_dev_hour(names[i]) THEN 3600
    ELSE 60

\* deps.py 94-119: compare, then refuse with 429 or let the request in
Decide(q) ==
    LET violations == Violations(q)
        names == [i \in 1..Len(violations) |-> violations[i][1]]
    IN  IF violations # <<>>
        THEN [q EXCEPT !.pc = 5, !.status = "429", !.violations = violations,
                       !.retry_after = RetryAfter(names)]
        ELSE [q EXCEPT !.pc = 5, !.status = "admitted"]

\* Counted that stops counting at the first window over its limit
Counted_early(q) ==
    \/ Len(q.counts) = Len(RlOrder)
    \/ Exceeds(q.counts[Len(q.counts)], rl_limits[RlOrder[Len(q.counts)]])

\* deps.py 91-92: the loop over the four windows is over
Counted(q) == Len(q.counts) = Len(RlOrder)

\* a request reaches the dependency: device_id is resolved before _check
\* runs and answers 400 to a missing or malformed id (deps.py 48-55, 75-76)
RlReceive(r, ip, header) ==
    /\ chk[r].pc \in {0, 5}
    /\ rl_checks < MaxChecks
    /\ rl_checks' = rl_checks + 1
    /\ chk' = [chk EXCEPT ![r] =
           IF IsSome(device_id(header))
           THEN [IdleChk EXCEPT !.pc = 1, !.ip = ip, !.did = Get(device_id(header))]
           ELSE [IdleChk EXCEPT !.pc = 5, !.ip = ip, !.status = "400"]]
    /\ UNCHANGED <<rl_limits, rl, rl_ticks, h_rl, scan_vars, fp_vars, en_vars, sp_vars>>

\* the history of a key after an INCR that returned value
Counts(h, name, value) ==
    IF h.incs > 0 /\ h.idle < RlTtl(name)
    THEN [incs |-> h.incs + 1, obs |-> h.obs \cup {value}, idle |-> 0,
          life |-> h.life]
    ELSE [incs |-> 1, obs |-> {value}, idle |-> 0, life |-> 0]

\* deps.py 91-119: one turn of the loop, `await _incr_with_ttl`; after the
\* last turn the limits are compared
RlIncr(r) ==
    /\ chk[r].pc \in 1..Len(RlOrder)
    /\ LET q == chk[r]
           name == RlOrder[q.pc]
           key == RlKey(name, q.ip, q.did)
           res == _incr_with_ttl(rl, key, RlTtl(name))
           q1 == [q EXCEPT !.pc = q.pc + 1,
                           !.counts = Append(@, res.value)]
       IN  /\ rl' = res.store
           /\ h_rl' = [h_rl EXCEPT ![key] = Counts(@, name, res.value)]
           /\ chk' = [chk EXCEPT ![r] = IF Counted(q1) THEN Decide(q1) ELSE q1]
    /\ UNCHANGED <<rl_limits, rl_checks, rl_ticks, scan_vars, fp_vars, en_vars, sp_vars>>

\* the window of a counter key
RlWindow(k) ==
    RlTtl(CHOOSE n \in RlNames : \E ip \in Ips, did \in Devices : RlKey(n, ip, did) = k)

\* Expired for a store that never drops a key
Expired_never(c, d) == FALSE

\* the store drops a key when its time to live has run out
Expired(c, d) == c.n > 0 /\ c.ttl <= d

\* d seconds pass
RlTick(d) ==
    /\ rl_ticks < MaxTicks
    /\ rl_ticks' = rl_ticks + 1
    /\ rl' = [k \in RlKeys |->
                 IF rl[k].n = 0 \/ Expired(rl[k], d) THEN NoCounter
                 ELSE [rl[k] EXCEPT !.ttl = @ - d]]
    /\ h_rl' = [k \in RlKeys |->
                   IF h_rl[k].incs = 0 THEN NoHistory
                   ELSE IF h_rl[k].idle + d >= RlWindow(k) THEN NoHistory
                   ELSE [h_rl[k] EXCEPT !.idle = @ + d, !.life = @ + d]]
    /\ UNCHANGED <<rl_limits, chk, rl_checks, scan_vars, fp_vars, en_vars, sp_vars>>

\* concurrent checks within one window
RlNext ==
    \/ \E r \in Reqs, ip \in Ips, header \in DeviceHeaders : RlReceive(r, ip, header)
    \/ \E r \in Reqs : RlIncr(r)

RlSpec == RlInit /\ [][RlNext]_vars

\* the settings of the runs in which time passes: only the minute window is
\* tight, or every window is
RlTimeSettings ==
    { [n \in RlNames |-> IF n = "ip_min" THEN 1 ELSE 9], [n \in RlNames |-> 1] }

RlTimeInit ==
    /\ ScanIdle
    /\ FpIdle
    /\ EnIdle
    /\ rl_limits \in RlTimeSettings
    /\ rl = [k \in RlKeys |-> NoCounter]
    /\ chk = [r \in Reqs |-> IdleChk]
    /\ rl_checks = 0
    /\ rl_ticks = 0
    /\ h_rl = [k \in RlKeys |-> NoHistory]
    /\ SpIdle

\* one client that sends its requests one after the other while time passes
RlTimeNext ==
    \/ \E ip \in Ips : RlReceive("r1", ip, "d1")
    \/ \E r \in Reqs : RlIncr(r)
    \/ \E d \in TickSizes : RlTick(d)

RlTimeSpec == RlTimeInit /\ [][RlTimeNext]_vars


(* ------------------------ rate limiter properties ---------------------- *)
\* the check of slot r has compared its counts with the limits
Compared(r) == chk[r].status \in {"admitted", "429"}

\* the windows whose count, as the check of slot r got it, is over the limit
Over(r) ==
    { i \in 1..Len(chk[r].counts) : chk[r].counts[i] > rl_limits[RlOrder[i]] }

\* C11: a check that compared its counts admitted the request exactly when
\* none of the four counts it got from its own increments is over the limit
\* of its window, and the k-th increment of a counter since it came to exist
\* got the count k, so that with limit L the requests 1..L are admitted and
\* request L+1 is refused.
C11_AdmittedIffWithinLimits ==
    \A r \in Reqs :
        Compared(r) =>
            /\ Len(chk[r].counts) = Len(RlOrder)
            /\ chk[r].status = "admitted" <=> Over(r) = {}
            /\ \A i \in 1..Len(RlOrder) :
                  LET k == RlKey(RlOrder[i], chk[r].ip, chk[r].did) IN
                  /\ chk[r].counts[i] \in 1..rl[k].n
                  /\ h_rl[k].obs = 1..rl[k].n

\* with every limit at 2, the second request of a client was admitted and
\* its third request was refused
C11_Witness ==
    /\ \A n \in RlNames : rl_limits[n] = 2
    /\ \E r, a \in Reqs :
          /\ chk[r].status = "429" /\ chk[r].counts = <<3, 3, 3, 3>>
          /\ chk[a].status = "admitted" /\ chk[a].counts = <<2, 2, 2, 2>>
          /\ chk[a].did = chk[r].did

\* the sum of the counters of window name over the devices
RECURSIVE SumOver(_, _)
SumOver(name, ds) ==
    IF ds = {} THEN 0
    ELSE LET d == CHOOSE x \in ds : TRUE
         IN  rl[RlKey(name, "1.1.1.1", d)].n + SumOver(name, ds \ {d})

\* C12: a check that compared its counts, refused or not, has incremented
\* all four counters: whenever no check is between two increments, the four
\* windows have counted the same number of requests.
C12_AllFourCounted ==
    /\ \A r \in Reqs : Compared(r) => Len(chk[r].counts) = Len(RlOrder)
    /\ (\A r \in Reqs : chk[r].pc \in {0, 5}) =>
          /\ SumOver("ip_min", {"d1"}) = SumOver("ip_day", {"d1"})
          /\ SumOver("ip_day", {"d1"}) = SumOver("dev_hour", Devices)
          /\ SumOver("dev_hour", Devices) = SumOver("dev_day", Devices)

\* a request was refused for the minute window alone, the first one counted,
\* and the three other windows counted it too
C12_Witness ==
    \E r \in Reqs :
        /\ chk[r].status = "429"
        /\ Over(r) = {1}
        /\ chk[r].counts = <<2, 2, 2, 2>>
        /\ \A i \in 1..Len(RlOrder) :
              rl[RlKey(RlOrder[i], chk[r].ip, chk[r].did)].n = 2

\* C13: a refusal lists exactly the windows whose count is over the limit,
\* and its retry-after is 86400 when a day window is among them, otherwise
\* 3600 when the device hour window is, otherwise 60; an admission carries
\* neither.
C13_ViolationsAndRetryAfter ==
    \A r \in Reqs :
        /\ chk[r].status = "429" =>
              /\ Over(r) # {}
              /\ Len(chk[r].violations) = Cardinality(Over(r))
              /\ \A i \in Over(r) :
                    \E j \in 1..Len(chk[r].violations) :
                        chk[r].violations[j] =
                            <<RlOrder[i], chk[r].counts[i], rl_limits[RlOrder[i]]>>
              /\ chk[r].retry_after =
                    IF Over(r) \cap {2, 4} # {} THEN 86400
                    ELSE IF 3 \in Over(r) THEN 3600
                    ELSE 60
        /\ chk[r].status = "admitted" =>
              chk[r].violations = <<>> /\ chk[r].retry_after = 0

\* a refusal for the minute and the hour window, no day window: 3600
C13_Witness ==
    \E r \in Reqs :
        /\ chk[r].status = "429"
        /\ Over(r) = {1, 3}
        /\ chk[r].retry_after = 3600

C15_OnlyIncrementAndExpiry ==
    [][\A k \in RlKeys :
          \/ /\ rl_ticks' = rl_ticks
             /\ rl'[k] = rl[k]
          \/ /\ rl_ticks' = rl_ticks
             /\ rl'[k].n = rl[k].n + 1
             /\ \E r \in Reqs : chk[r].pc \in 1..Len(RlOrder) /\ chk'[r].pc # chk[r].pc
          \/ /\ rl_ticks' = rl_ticks + 1
             /\ rl[k].n > 0 /\ h_rl[k].idle < RlWindow(k)
             /\ IF h_rl'[k].incs = 0 THEN rl'[k].n = 0 ELSE rl'[k].n = rl[k].n
          \/ /\ rl_ticks' = rl_ticks + 1
             /\ rl[k].n = 0 /\ rl'[k].n = 0
      ]_vars

\* after a refusal the minute counter expired, the next request started it
\* again at 1 and was admitted, while the day counter went on to 3
C15_Witness ==
    /\ rl_ticks > 0
    /\ chk["r1"].status = "admitted"
    /\ chk["r1"].counts[1] = 1
    /\ chk["r1"].counts[2] = 3

\* the checks that have counted window i under the same key as slot r
SameKey(r, i) ==
    { o \in Reqs : /\ Len(chk[o].counts) >= i
                   /\ RlKey(RlOrder[i], chk[o].ip, chk[o].did)
                        = RlKey(RlOrder[i], chk[r].ip, chk[r].did) }

\* C16: the value of a counter is the number of increments made on it, the
\* increments got the values 1, 2, ... once each, and two checks never hold
\* the same count of the same counter.
C16_NoLostUpdate ==
    /\ \A k \in RlKeys :
          /\ rl[k].n = h_rl[k].incs
          /\ h_rl[k].obs = 1..h_rl[k].incs
    /\ \A r \in Reqs : \A i \in 1..Len(chk[r].counts) :
          \A o \in SameKey(r, i) \ {r} : chk[o].counts[i] # chk[r].counts[i]

\* two checks of one client overtook each other between their increments
C16_Witness ==
    /\ chk["r1"].counts = <<1, 2>>
    /\ chk["r2"].counts = <<2, 1>>
    /\ chk["r1"].did = chk["r2"].did


(* ============ POST /books/enrich (routers/books.py 20-25) ============== *)
\* the partial records that clients post: with an ISBN guess, without one,
\* and with an ISBN guess that holds no digit
PartialIsbn == [title |-> <<"D">>, author |-> <<"H">>, isbn |-> <<"9">>]
PartialPlain == [title |-> <<" ", "D">>, author |-> <<"H">>, isbn |-> <<>>]
PartialDash == [title |-> <<"D">>, author |-> <<>>, isbn |-> <<"-">>]

PartialLists ==
    { <<PartialIsbn>>, <<PartialPlain>>, <<PartialDash>>,
      <<PartialPlain, PartialIsbn>> }

\* books_meta_service.py 17-19
Stripped(partial) ==
    [title |-> Strip(partial.title), author |-> Strip(partial.author),
     isbn |-> Strip(partial.isbn)]

\* books_meta_service.py 20-21
EnKey(partial) ==
    LET p == Stripped(partial) IN
    meta_key(make_fingerprint(p.title, p.author, p.isbn))

EnKeys == UNION { { EnKey(ps[i]) : i \in 1..Len(ps) } : ps \in PartialLists }

\* a slot before its first request
IdleEn ==
    [pc |-> "idle",
     partials |-> <<>>,
     i |-> 0,                    \* position of enrich_many's loop
     out |-> <<>>,               \* enrich_many's list
     result |-> None,            \* the record enrich_one is about to write
     response |-> "",            \* "200" or "500"
     books |-> <<>>,             \* the books of the 200 response
     h |-> <<>>]                 \* per enrich_one call: what it did

\* what an enrich_one call did: its key, the entry under the key at the
\* lookup, how the lookup ended, the catalog calls with their answers, what it
\* wrote and what it returned
Lookup(key, entry, get, calls) ==
    [key |-> key, entry |-> entry, get |-> get, calls |-> calls,
     set |-> "", wrote |-> None, returned |-> None, over |-> FALSE]

EnInit ==
    /\ client \in {"sync", "async"}
    /\ gcv_key = FALSE
    /\ redis = [k \in EnKeys |-> None]
    /\ req = <<>>
    /\ scans = 0
    /\ h_returned = <<>>
    /\ RlIdle
    /\ FpIdle
    /\ en = [r \in Reqs |-> IdleEn]
    /\ en_reqs = 0
    /\ SpIdle

\* the handler raised
EnRaise(q) == [q EXCEPT !.pc = "done", !.response = "500", !.result = None]

\* books_meta_service.py 49-53, books.py 25: on to the next partial, after
\* the last one the list is sent
EnAdvance(q) ==
    IF q.i >= Len(q.partials)
    THEN [q EXCEPT !.pc = "done", !.response = "200", !.books = q.out,
                   !.out = <<>>, !.result = None, !.i = 0]
    ELSE [q EXCEPT !.pc = "get", !.i = q.i + 1, !.result = None]

\* enrich_one returned b: `if b: out.append(b)`
EnReturn(q, b) ==
    LET n == Len(q.h)
        q1 == [q EXCEPT !.h[n].returned = b, !.h[n].over = TRUE]
    IN  EnAdvance(IF IsSome(b) THEN [q1 EXCEPT !.out = Append(@, Get(b))] ELSE q1)

\* POST /books/enrich with a JSON array
EnReceive(r, partials) ==
    /\ en[r].pc \in {"idle", "done"}
    /\ en_reqs < MaxEnrich
    /\ en_reqs' = en_reqs + 1
    /\ en' = [en EXCEPT ![r] = [IdleEn EXCEPT !.pc = "get", !.i = 1,
                                              !.partials = partials]]
    /\ UNCHANGED <<scan_vars, rl_vars, fp_vars, sp_vars>>

\* CatalogOrder that asks catalog B first
CatalogOrder_b_first(isbn) ==
    IF isbn # <<>> THEN <<"gb.by_isbn", "ol.by_isbn", "ol.search">>
    ELSE <<"gb.search", "ol.search">>

\* books_meta_service.py 28-41: the adapter calls in the order in which
\* enrich_one makes them as long as it has no record: `if isbn` is the truth
\* of the stripped string
CatalogOrder(isbn) ==
    IF isbn # <<>> THEN <<"ol.by_isbn", "ol.search", "gb.by_isbn">>
    ELSE <<"ol.search", "gb.search">>

\* what an adapter call can come to for a query: the Open Library adapters
\* return None before any request for an ISBN without a digit
\* (books_meta.py 137-139) and for an empty title and author (178-179), they
\* catch request errors, and their mapping code can raise; the Google Books
\* adapter returns a record or None
Answers(call, p) ==
    CASE call = "ol.by_isbn" ->
             IF normalize_isbn(p.isbn) = <<>> THEN {"none"} ELSE CatalogAnswers
      [] call = "ol.search" ->
             IF p.title = <<>> /\ p.author = <<>> THEN {"none"} ELSE CatalogAnswers
      [] OTHER -> CatalogAnswers \ {"raise"}

\* the record an adapter call answers with
Record(call) == IF call \in {"ol.by_isbn", "gb.by_isbn"} THEN IsbnBook ELSE SearchBook

\* books_meta_service.py 28-41: the ways the calls of order can go after
\* the calls made so far: the first record ends them
RECURSIVE Catalogs(_, _, _)
Catalogs(p, order, calls) ==
    IF order = <<>> THEN {[calls |-> calls, result |-> None, raised |-> FALSE]}
    ELSE UNION {
           LET made == Append(calls, <<Head(order), a>>) IN
           IF a = "found"
           THEN {[calls |-> made, result |-> Some(Record(Head(order))), raised |-> FALSE]}
           ELSE IF a = "raise"
           THEN {[calls |-> made, result |-> None, raised |-> TRUE]}
           ELSE Catalogs(p, Tail(order), made)
           : a \in Answers(Head(order), p) }

\* NoResult that goes on to write an entry that stands for "not found"
NoResult_negative(q) ==
    [q EXCEPT !.pc = "set", !.result = Some(CanonicalBook(<<>>, None, None, None))]

\* books_meta_service.py 43-45: `if result:` is false, nothing is written
\* and None is returned
NoResult(q) == EnReturn(q, None)

\* books_meta_service.py 16-41, 45: the cache check of enrich_one and, on a
\* miss, the catalog calls; without a record enrich_one returns None
EnGet(r, fault) ==
    /\ en[r].pc = "get"
    /\ LET q == en[r]
           partial == q.partials[q.i]
           p == Stripped(partial)
           key == EnKey(partial)
           got == cache_get(client, redis, key, fault)
           did(get, calls) == [q EXCEPT !.h = Append(@, Lookup(key, redis[key], get, calls))]
       IN  IF got.raised
           THEN en' = [en EXCEPT ![r] = EnRaise(did("error", <<>>))]
           ELSE IF Truthy(got.value)
           THEN en' = [en EXCEPT ![r] = EnReturn(did("hit", <<>>), got.value)]
           ELSE \E o \in Catalogs(p, CatalogOrder(p.isbn), <<>>) :
                    en' = [en EXCEPT ![r] =
                        IF o.raised THEN EnRaise(did("miss", o.calls))
                        ELSE IF IsSome(o.result)
                        THEN [did("miss", o.calls) EXCEPT !.pc = "set", !.result = o.result]
                        ELSE NoResult(did("miss", o.calls))]
    /\ UNCHANGED <<scan_vars, rl_vars, fp_vars, en_reqs, sp_vars>>

\* books_meta_service.py 14, 43-45: write the record, then return it
EnSet(r, fault) ==
    /\ en[r].pc = "set"
    /\ LET q == en[r]
           n == Len(q.h)
           key == EnKey(q.partials[q.i])
           put == cache_set(client, redis, key, Get(q.result), METADATA_TTL_SECS, fault)
       IN  /\ redis' = put.store
           /\ en' = [en EXCEPT ![r] =
                  IF put.raised THEN EnRaise([q EXCEPT !.h[n].set = "error"])
                  ELSE EnReturn([q EXCEPT !.h[n].set = "ok",
                                          !.h[n].wrote = put.store[key]],
                                q.result)]
    /\ UNCHANGED <<client, gcv_key, req, scans, h_returned, rl_vars, fp_vars, en_reqs, sp_vars>>

\* the time to live of a metadata entry runs out
EnExpire(k) ==
    /\ IsSome(redis[k])
    /\ redis' = [redis EXCEPT ![k] = None]
    /\ UNCHANGED <<client, gcv_key, req, scans, h_returned, rl_vars, fp_vars, en_vars, sp_vars>>

EnNext ==
    \/ \E r \in Reqs, partials \in PartialLists : EnReceive(r, partials)
    \/ \E r \in Reqs, fault \in BOOLEAN : EnGet(r, fault)
    \/ \E r \in Reqs, fault \in BOOLEAN : EnSet(r, fault)
    \/ \E k \in EnKeys : EnExpire(k)

EnSpec == EnInit /\ [][EnNext]_vars


(* --------------------- metadata resolution properties ------------------ *)
\* the enrich_one calls made so far: slot and position in the request
Made == UNION { { <<r, j>> : j \in 1..Len(en[r].h) } : r \in Reqs }

\* the stripped partial record of a call
QueryOf(x) == Stripped(en[x[1]].partials[x[2]])

LookupOf(x) == en[x[1]].h[x[2]]

\* C17: an enrich_one call that found an entry under meta:<fingerprint of
\* its query> at its lookup (and whose read did not raise) returned the record
\* of that entry, made no catalog call and no cache write.
C17_MetaHitReturnsAtOnce ==
    \A x \in Made :
        LET l == LookupOf(x)
            p == QueryOf(x)
        IN  /\ l.key = "meta:" \o Str(make_fingerprint(p.title, p.author, p.isbn))
            /\ IsSome(l.entry) /\ l.get # "error" =>
                  /\ l.get = "hit"
                  /\ l.over
                  /\ l.returned = Some(Get(l.entry).value)
                  /\ l.calls = <<>>
                  /\ l.set = "" /\ l.wrote = None

\* a request got the record of a search out of the cache and is answered
C17_Witness ==
    \E r \in Reqs :
        /\ en[r].response = "200"
        /\ en[r].h[1].get = "hit"
        /\ en[r].books = <<SearchBook>>

\* the adapter calls of enrich_one, in its order, for a query with and
\* without an ISBN guess
WithIsbn == <<"ol.by_isbn", "ol.search", "gb.by_isbn">>
WithoutIsbn == <<"ol.search", "gb.search">>

\* C18: the catalog calls of an enrich_one call that missed the cache are a
\* beginning of: catalog A by ISBN, catalog A search, catalog B by ISBN for a
\* query with an ISBN guess; catalog A search, catalog B search for one
\* without.  Every call but the last returned nothing; the calls end before
\* the last of the order only with a record (or an exception), and a call
\* that hit the cache made none.
C18_CatalogOrder ==
    \A x \in Made :
        LET l == LookupOf(x)
            order == IF QueryOf(x).isbn # <<>> THEN WithIsbn ELSE WithoutIsbn
            n == Len(l.calls)
        IN  /\ l.get # "miss" => n = 0
            /\ l.get = "miss" =>
                  /\ n \in 1..Len(order)
                  /\ \A k \in 1..n : l.calls[k][1] = order[k]
                  /\ \A k \in 1..(n - 1) : l.calls[k][2] = "none"
                  /\ l.calls[n][2] = "none" => n = Len(order) /\ l.returned = None /\ l.over
                  /\ l.calls[n][2] = "found" =>
                        \/ en[x[1]].pc = "set" /\ en[x[1]].i = x[2] /\ ~l.over
                        \/ l.set = "error"
                        \/ l.over /\ l.returned = Some(Record(order[n]))

\* for a query with an ISBN guess both calls to catalog A returned nothing
\* and catalog B, asked by ISBN, had the record
C18_Witness ==
    \E x \in Made :
        /\ LookupOf(x).calls =
              << <<"ol.by_isbn", "none">>, <<"ol.search", "none">>, <<"gb.by_isbn", "found">> >>
        /\ LookupOf(x).returned = Some(IsbnBook)

\* C19: an enrich_one call that returned a record it got from a catalog has
\* written this record under its key with a time to live of 180 days.
C19_CatalogRecordCachedFor180Days ==
    \A x \in Made :
        LET l == LookupOf(x) IN
        l.get = "miss" /\ IsSome(l.returned) =>
            l.wrote = Some([value |-> Get(l.returned), ttl |-> 180 * 24 * 3600])

\* C36: every record stored in the cache under the key meta:<k> has k for
\* its fingerprint field, after any sequence of resolve calls.
C36_KeyIsFingerprintOfRecord ==
    \A k \in DOMAIN redis :
        IsSome(redis[k]) => meta_key(Get(redis[k]).value.fingerprint) = k

\* what the calls made so far show: a call that missed and got nothing from
\* any catalog returned None without a write, and a call that saw no entry
\* under its key (and whose read did not raise) asked the catalogs
NothingFoundNothingCached ==
    \A x \in Made :
        LET l == LookupOf(x) IN
        /\ l.over /\ l.get = "miss"
              /\ (\A n \in 1..Len(l.calls) : l.calls[n][2] = "none") =>
              l.returned = None /\ l.set = "" /\ l.wrote = None
        /\ l.entry = None /\ l.get # "error" =>
              l.get = "miss" /\ Len(l.calls) >= 1

\* the step writes the entry of key k: it is the cache write of an
\* enrich_one call that missed the cache and got a record from a catalog
WrittenByResolvedMiss(k) ==
    \E r \in Reqs :
        LET l == en[r].h[Len(en[r].h)] IN
        /\ en[r].pc = "set" /\ IsSome(en[r].result)
        /\ l.key = k /\ l.get = "miss"
        /\ l.calls[Len(l.calls)][2] = "found"
        /\ Get(redis'[k]).value = Get(en[r].result)

\* C37: a resolve call that finds no record in either catalog returns absent
\* and leaves the cache unchanged, so that a later resolve call with the same
\* inputs asks the catalogs again; a meta: entry is written only by a resolve
\* call that missed the cache and received a record from a catalog.
C37_NoNegativeEntry ==
    [][/\ NothingFoundNothingCached'
       /\ \A k \in DOMAIN redis :
              redis'[k] # redis[k] /\ IsSome(redis'[k]) => WrittenByResolvedMiss(k)]_vars

\* two resolve calls with the same inputs both missed the cache and both
\* asked the catalogs in vain
C37_Witness ==
    \E x, y \in Made :
        /\ x # y /\ LookupOf(x).key = LookupOf(y).key
        /\ \A z \in {x, y} :
              /\ LookupOf(z).over /\ LookupOf(z).get = "miss"
              /\ LookupOf(z).returned = None
              /\ Len(LookupOf(z).calls) >= 2


(* ------------------- calls of make_fingerprint ------------------------- *)
MaxFpLen == 2

\* the texts of at most n characters of an alphabet
TextsUpTo(alphabet, n) == UNION { [1..k -> alphabet] : k \in 0..n }

FpTitles == TextsUpTo({"D", " ", "!", "é"}, MaxFpLen)
FpAuthors == {<<>>, <<"H">>, <<".">>}
FpIsbns == TextsUpTo({"9", "-", "X"}, MaxFpLen)

\* a call make_fingerprint(title, author, isbn) that has not returned
FpInit ==
    /\ fp_args \in [title : FpTitles, author : FpAuthors, isbn : FpIsbns]
    /\ fp_ret = None
    /\ ScanIdle
    /\ RlIdle
    /\ EnIdle
    /\ SpIdle

\* the call returns
FpCall ==
    /\ fp_ret = None
    /\ fp_ret' = Some(make_fingerprint(fp_args.title, fp_args.author, fp_args.isbn))
    /\ UNCHANGED <<fp_args, scan_vars, rl_vars, en_vars, sp_vars>>

FpNext == FpCall

FpSpec == FpInit /\ [][FpNext]_vars

\* C20: a make_fingerprint call returns the normalized ISBN when this is not
\* empty, and else normalize_text(title), followed by "|" and
\* normalize_text(author) when this is not empty.
C20_FingerprintOfIsbnOrText ==
    IsSome(fp_ret) =>
        LET digits == normalize_isbn(fp_args.isbn)
            t == normalize_text(fp_args.title)
            a == normalize_text(fp_args.author)
        IN  Get(fp_ret) = IF digits # <<>> THEN digits
                          ELSE IF a # <<>> THEN t \o <<"|">> \o a
                          ELSE t


(* ------------- two queries through enrich_one's key (17-21) ------------ *)
\* titles that are one title up to casing, accents and punctuation, and
\* another title
PairTitles ==
    { <<"D", "é">>, <<"d", "e">>, <<"D", "e", "!">>, <<"D", ".", "e">>, <<"H">> }

PairAuthors == { <<>>, <<"H">>, <<"h", ".">> }

\* one ISBN written plainly, with a hyphen and with a blank, another ISBN,
\* and no ISBN
PairIsbns == { <<>>, <<"9", "7">>, <<"9", "-", "7">>, <<"9", " ", "7">>, <<"9", "8">> }

Queries == [title : PairTitles, author : PairAuthors, isbn : PairIsbns]

\* two enrich_one calls that have not computed their keys
FpPairInit ==
    /\ fp_args \in [a : Queries, b : Queries]
    /\ fp_ret = [a |-> None, b |-> None]
    /\ ScanIdle
    /\ RlIdle
    /\ EnIdle
    /\ SpIdle

\* books_meta_service.py 17-21 for one of the two queries
FpKey(which) ==
    /\ fp_ret[which] = None
    /\ LET p == Stripped(fp_args[which])
           fp == make_fingerprint(p.title, p.author, p.isbn)
       IN  fp_ret' = [fp_ret EXCEPT ![which] = Some([fp |-> fp, key |-> meta_key(fp)])]
    /\ UNCHANGED <<fp_args, scan_vars, rl_vars, en_vars, sp_vars>>

FpPairNext == \E which \in {"a", "b"} : FpKey(which)

FpPairSpec == FpPairInit /\ [][FpPairNext]_vars

\* a text without its punctuation marks, in lower case and without accents
FoldChar(c) ==
    CASE c = "D" -> "d"
      [] c = "H" -> "h"
      [] c = "é" -> "e"
      [] OTHER -> c

Fold(t) ==
    LET kept == SelectSeq(t, LAMBDA c : c \notin {"!", ".", "-", ":"})
    IN  [i \in 1..Len(kept) |-> FoldChar(kept[i])]

\* an ISBN without its hyphens and blanks
Unformatted(isbn) == SelectSeq(isbn, LAMBDA c : c \notin {"-", " "})

\* two queries that denote the same book
SameBook(q1, q2) ==
    \/ /\ q1.isbn # <<>> /\ q2.isbn # <<>>
       /\ Unformatted(q1.isbn) = Unformatted(q2.isbn)
    \/ /\ q1.isbn = <<>> /\ q2.isbn = <<>>
       /\ Fold(q1.title) = Fold(q2.title)
       /\ Fold(q1.author) = Fold(q2.author)

\* C21: two queries that denote the same book (ISBNs equal up to hyphens and
\* blanks, or, without ISBN, titles and authors equal up to casing,
\* punctuation and accents) get the same fingerprint and the same meta: key.
C21_SameBookSameKey ==
    IsSome(fp_ret.a) /\ IsSome(fp_ret.b) /\ SameBook(fp_args.a, fp_args.b) =>
        /\ Get(fp_ret.a).fp = Get(fp_ret.b).fp
        /\ Get(fp_ret.a).key = Get(fp_ret.b).key


(* ----------------------- calls of normalize_text ----------------------- *)
MaxNormLen == 2

NormTexts == TextsUpTo({"D", "e", "é", "!", " ", "U+210C"}, MaxNormLen)

\* two strings; normalize_text is to be applied to s, to its result and to t
NormInit ==
    /\ fp_args \in [s : NormTexts, t : NormTexts]
    /\ fp_ret = [s |-> None, ss |-> None, t |-> None]
    /\ ScanIdle
    /\ RlIdle
    /\ EnIdle
    /\ SpIdle

\* normalize_text(s), normalize_text(t)
Normalize(which) ==
    /\ fp_ret[which] = None
    /\ fp_ret' = [fp_ret EXCEPT ![which] = Some(normalize_text(fp_args[which]))]
    /\ UNCHANGED <<fp_args, scan_vars, rl_vars, en_vars, sp_vars>>

\* normalize_text(normalize_text(s))
NormalizeAgain ==
    /\ IsSome(fp_ret.s)
    /\ fp_ret.ss = None
    /\ fp_ret' = [fp_ret EXCEPT !.ss = Some(normalize_text(Get(fp_ret.s)))]
    /\ UNCHANGED <<fp_args, scan_vars, rl_vars, en_vars, sp_vars>>

NormNext ==
    \/ \E which \in {"s", "t"} : Normalize(which)
    \/ NormalizeAgain

NormSpec == NormInit /\ [][NormNext]_vars

\* C22: normalize_text applied to its own result gives this result again, and
\* two strings that differ only in case, accents or punctuation have the same
\* result.
C22_IdempotentAndInsensitive ==
    /\ IsSome(fp_ret.ss) => fp_ret.ss = fp_ret.s
    /\ IsSome(fp_ret.s) /\ IsSome(fp_ret.t) /\ Fold(fp_args.s) = Fold(fp_args.t) =>
          fp_ret.s = fp_ret.t


(* ------- OpenLibraryAdapter.search: the choice among the docs ---------- *)
MaxDocs == 2

\* a score is a fraction n/d with d > 0
Frac(n, d) == [n |-> n, d |-> d]
Times(k, x) == Frac(k * x.n, x.d)
FracLess(x, y) == x.n * y.d < y.n * x.d
FracEq(x, y) == x.n * y.d = y.n * x.d

Min(a, b) == IF a <= b THEN a ELSE b
Max(a, b) == IF a >= b THEN a ELSE b

\* Levenshtein.distance
RECURSIVE levenshtein_distance(_, _)
levenshtein_distance(a, b) ==
    IF a = <<>> THEN Len(b)
    ELSE IF b = <<>> THEN Len(a)
    ELSE IF Head(a) = Head(b) THEN levenshtein_distance(Tail(a), Tail(b))
    ELSE 1 + Min(levenshtein_distance(Tail(a), b),
                 Min(levenshtein_distance(a, Tail(b)),
                     levenshtein_distance(Tail(a), Tail(b))))

\* fuzzy_similarity, with and without the Levenshtein package
fuzzy_similarity(s1, s2, available) ==
    IF s1 = <<>> \/ s2 = <<>> THEN Frac(0, 1)
    ELSE LET s1_norm == normalize_text(s1)
             s2_norm == normalize_text(s2)
             max_len == Max(Len(s1_norm), Len(s2_norm))
         IN  IF s1_norm = s2_norm THEN Frac(1, 1)
             ELSE IF available
             THEN Frac(max_len - levenshtein_distance(s1_norm, s2_norm), max_len)
             ELSE IF Find(s2_norm, s1_norm) > 0 \/ Find(s1_norm, s2_norm) > 0
             THEN Frac(7, 10)
             ELSE Frac(0, 1)

\* " ".join(names)
RECURSIVE JoinNames(_)
JoinNames(names) ==
    IF names = <<>> THEN <<>>
    ELSE IF Len(names) = 1 THEN names[1]
    ELSE names[1] \o <<" ">> \o JoinNames(Tail(names))

\* score(d), books_meta.py 206-223
score(d, title, author, available) ==
    LET title_similarity == fuzzy_similarity(title, d.title, available)
        author_similarity ==
            IF author # <<>> THEN fuzzy_similarity(author, JoinNames(d.author_name), available)
            ELSE Frac(0, 1)
        edition_score == Frac(Min(d.edition_count, 100), 100)
    IN  <<Times(10, title_similarity), Times(5, author_similarity), edition_score>>

\* the order of Python's tuples
TupleLess(x, y) ==
    \/ FracLess(x[1], y[1])
    \/ FracEq(x[1], y[1]) /\ FracLess(x[2], y[2])
    \/ FracEq(x[1], y[1]) /\ FracEq(x[2], y[2]) /\ FracLess(x[3], y[3])

\* the key of a doc in the sort of the search q
Key(d, q) == score(d, q.title, q.author, q.available)

\* Insert that puts an element before the elements of its key
InsertDesc_before_equal(x, sorted, q) ==
    LET before == { i \in 1..Len(sorted) : TupleLess(Key(x, q), Key(sorted[i], q)) }
        n == Cardinality(before)
    IN  SubSeq(sorted, 1, n) \o <<x>> \o SubSeq(sorted, n + 1, Len(sorted))

\* one step of a stable sort with reverse=True: x goes behind the elements
\* already there whose key is not less than its own
InsertDesc(x, sorted, q) ==
    LET before == { i \in 1..Len(sorted) : ~TupleLess(Key(sorted[i], q), Key(x, q)) }
        n == Cardinality(before)
    IN  SubSeq(sorted, 1, n) \o <<x>> \o SubSeq(sorted, n + 1, Len(sorted))

\* sorted(docs, key=score, reverse=True)
RECURSIVE SortedDesc(_, _, _)
SortedDesc(docs, sorted, q) ==
    IF docs = <<>> THEN sorted
    ELSE SortedDesc(Tail(docs), InsertDesc(Head(docs), sorted, q), q)

\* the docs of a search response
DocTitles == { <<"D", "u">>, <<"D", "u", "b">>, <<"H">> }
DocAuthors == { <<>>, << <<"H">> >>, << <<"B">>, <<"H">> >> }
DocEditions == { 0, 100, 200 }
Docs == [title : DocTitles, author_name : DocAuthors, edition_count : DocEditions]

\* a search for the title "Du", with or without an author, answered with at
\* most MaxDocs docs
PickInit ==
    /\ fp_args \in [title : { <<"D", "u">> },
                    author : { <<>>, <<"H">> },
                    docs : UNION { [1..k -> Docs] : k \in 0..MaxDocs },
                    available : BOOLEAN]
    /\ fp_ret = None
    /\ ScanIdle
    /\ RlIdle
    /\ EnIdle
    /\ SpIdle

\* books_meta.py 201-225: None without docs, and else the first doc of the
\* sorted list
Pick ==
    /\ fp_ret = None
    /\ fp_ret' = Some(IF fp_args.docs = <<>> THEN None
                      ELSE Some(SortedDesc(fp_args.docs, <<>>, fp_args)[1]))
    /\ UNCHANGED <<fp_args, scan_vars, rl_vars, en_vars, sp_vars>>

PickNext == Pick

PickSpec == PickInit /\ [][PickNext]_vars

\* the title similarity of a doc in the search q
TitleSim(d, q) == fuzzy_similarity(q.title, d.title, q.available)

\* C23: the doc the search selects has the greatest score tuple (title
\* similarity * 10, author similarity * 5, edition score) in the order of
\* tuples and is the first doc of the response with this tuple; no doc has a
\* higher title similarity than the selected one, whatever the authors and
\* edition counts, so that a doc whose title is the query's is selected when
\* there is one.
C23_FirstOfGreatestScore ==
    IsSome(fp_ret) /\ fp_args.docs # <<>> =>
        LET docs == fp_args.docs
            best == Get(Get(fp_ret))
        IN  /\ \E i \in 1..Len(docs) :
                  /\ docs[i] = best
                  /\ \A j \in 1..Len(docs) : ~TupleLess(Key(docs[i], fp_args), Key(docs[j], fp_args))
                  /\ \A j \in 1..(i - 1) : TupleLess(Key(docs[j], fp_args), Key(docs[i], fp_args))
            /\ \A j \in 1..Len(docs) : ~FracLess(TitleSim(best, fp_args), TitleSim(docs[j], fp_args))
            /\ (\E j \in 1..Len(docs) : docs[j].title = fp_args.title) =>
                  best.title = fp_args.title

\* a doc with the query's title, no author and no edition was selected
\* although a doc whose title only contains the query's came first, with the
\* author asked for and 200 editions
C23_Witness ==
    /\ IsSome(fp_ret)
    /\ fp_args.author = <<"H">>
    /\ Len(fp_args.docs) = 2
    /\ fp_args.docs[1] =
          [title |-> <<"D", "u", "b">>, author_name |-> << <<"H">> >>, edition_count |-> 200]
    /\ fp_args.docs[2] = [title |-> <<"D", "u">>, author_name |-> <<>>, edition_count |-> 0]
    /\ Get(fp_ret) = Some(fp_args.docs[2])


(* ================= the spend counters (cost_guard.py) ================== *)
MaxSpendCalls == 4

Providers == {"groq", "gcv"}

\* datetime.utcnow().strftime("%Y-%m") of the months the clock goes through
SpMonths == <<"2026-11", "2026-12">>

\* cost_guard.py 9-11
_month_key(provider, month) == "spend:" \o provider \o ":" \o SpMonths[month]

SpendKeys == { _month_key(p, m) : p \in Providers, m \in 1..Len(SpMonths) }

\* the amounts of the calls, in cents
Amounts == {0, 1, 2}

SpInit ==
    /\ client \in {"sync", "async"}
    /\ gcv_key = FALSE
    /\ redis = <<>>
    /\ req = <<>>
    /\ scans = 0
    /\ h_returned = <<>>
    /\ RlIdle
    /\ FpIdle
    /\ EnIdle
    /\ sp_month = 1
    /\ sp_store = [k \in SpendKeys |-> None]
    /\ sp_read = None
    /\ sp_calls = 0
    /\ h_sp = [k \in SpendKeys |-> 0]

\* INCRBYFLOAT: one command of the store
incrbyfloat(store, key, usd) ==
    [store EXCEPT ![key] = Some((IF IsSome(@) THEN Get(@) ELSE 0) + usd)]

\* cost_guard.py 14-22: get_redis() has an incrbyfloat attribute whichever
\* client it is, so the first branch is taken: with the synchronous client
\* the command is executed (or raises), with the redis.asyncio client the
\* call makes a coroutine that is never awaited and the store is not asked
RecordSpend(provider, usd, fault) ==
    /\ sp_calls < MaxSpendCalls
    /\ sp_calls' = sp_calls + 1
    /\ LET key == _month_key(provider, sp_month) IN
       IF client = "sync"
       THEN IF fault
            THEN UNCHANGED <<sp_store, h_sp>>
            ELSE /\ sp_store' = incrbyfloat(sp_store, key, usd)
                 /\ h_sp' = [h_sp EXCEPT ![key] = @ + usd]
       ELSE /\ UNCHANGED sp_store
            /\ h_sp' = [h_sp EXCEPT ![key] = @ + usd]
    /\ UNCHANGED <<sp_month, sp_read, scan_vars, rl_vars, fp_vars, en_vars>>

\* cost_guard.py 25-33: float(v or 0.0); with the redis.asyncio client v is a
\* coroutine and float() raises TypeError
GetMonthSpend(provider) ==
    /\ sp_calls < MaxSpendCalls
    /\ sp_calls' = sp_calls + 1
    /\ LET key == _month_key(provider, sp_month)
           v == sp_store[key]
       IN  sp_read' = Some([key |-> key,
                            recorded |-> h_sp[key],
                            raised |-> client = "async",
                            value |-> IF client = "async" THEN 0
                                      ELSE IF IsSome(v) THEN Get(v) ELSE 0])
    /\ UNCHANGED <<sp_month, sp_store, h_sp, scan_vars, rl_vars, fp_vars, en_vars>>

\* the calendar month changes
NextMonth ==
    /\ sp_month < Len(SpMonths)
    /\ sp_month' = sp_month + 1
    /\ UNCHANGED <<sp_store, sp_read, sp_calls, h_sp, scan_vars, rl_vars, fp_vars, en_vars>>

SpNext ==
    \/ \E provider \in Providers, usd \in Amounts, fault \in BOOLEAN :
           RecordSpend(provider, usd, fault)
    \/ \E provider \in Providers : GetMonthSpend(provider)
    \/ NextMonth

SpSpec == SpInit /\ [][SpNext]_vars

\* C27: after any record_spend calls the counter of a provider and month
\* holds the sum of the amounts recorded for them and is absent when nothing
\* was recorded, and get_month_spend returns this sum, 0 when nothing was
\* recorded.
C27_MonthSpendIsSumRecorded ==
    /\ \A k \in SpendKeys :
           \/ sp_store[k] = None /\ h_sp[k] = 0
           \/ sp_store[k] = Some(h_sp[k])
    /\ IsSome(sp_read) =>
           /\ ~Get(sp_read).raised
           /\ Get(sp_read).value = Get(sp_read).recorded


(* ============ cache_set and cache_get by themselves (helpers.py) ======= *)
\* Python values that json.dumps accepts
PyValue(type, items) == [type |-> type, items |-> items]

PyValues ==
    { PyValue("dict", << <<"a", 1>>, <<"b", "c">> >>),
      PyValue("list", <<1, 2>>),
      PyValue("tuple", <<1, 2>>),
      PyValue("int", <<0>>),
      PyValue("NoneType", <<>>) }

\* json.dumps: a tuple is written as an array, like a list
json_dumps(value) ==
    [json |-> CASE value.type = "dict" -> "object"
                [] value.type \in {"list", "tuple"} -> "array"
                [] value.type = "int" -> "number"
                [] OTHER -> "null",
     items |-> value.items]

\* json.loads: an array is read as a list
json_loads(raw) ==
    PyValue(CASE raw.json = "object" -> "dict"
              [] raw.json = "array" -> "list"
              [] raw.json = "number" -> "int"
              [] OTHER -> "NoneType",
            raw.items)

CacheKeys == {"test:key", "test:other"}

CacheTtls == {5, 60}

\* nothing set, nothing read
CacheInit ==
    /\ client \in {"sync", "async"}
    /\ gcv_key = FALSE
    /\ redis = [k \in CacheKeys |-> None]
    /\ req = <<>>
    /\ scans = 0
    /\ h_returned = <<>>
    /\ RlIdle
    /\ EnIdle
    /\ SpIdle
    /\ fp_args = [k \in CacheKeys |-> None]
    /\ fp_ret = None

\* cache_set(key, value, ttl): the store keeps json.dumps(value), from which
\* a later read gets json.loads of it; fp_args keeps the value of the last
\* call for the key that returned
CacheSetCall(key, value, ttl, fault) ==
    /\ LET put == cache_set(client, redis, key, json_loads(json_dumps(value)), ttl, fault)
       IN  /\ redis' = put.store
           /\ fp_args' = IF put.raised THEN fp_args
                         ELSE [fp_args EXCEPT ![key] = Some(value)]
    /\ UNCHANGED <<client, gcv_key, req, scans, h_returned, fp_ret, rl_vars, en_vars, sp_vars>>

\* cache_get(key); fault is an error of the backend during the read
CacheGetCall(key, fault) ==
    /\ LET got == cache_get(client, redis, key, fault)
       IN  fp_ret' = Some([key |-> key, fault |-> fault, set |-> fp_args[key],
                           raised |-> got.raised, value |-> got.value])
    /\ UNCHANGED <<fp_args, scan_vars, rl_vars, en_vars, sp_vars>>

\* the time to live of an entry runs out
CacheExpire(key) ==
    /\ IsSome(redis[key])
    /\ redis' = [redis EXCEPT ![key] = None]
    /\ fp_args' = [fp_args EXCEPT ![key] = None]
    /\ UNCHANGED <<client, gcv_key, req, scans, h_returned, fp_ret, rl_vars, en_vars, sp_vars>>

CacheNext ==
    \/ \E key \in CacheKeys, value \in PyValues, ttl \in CacheTtls, fault \in BOOLEAN :
           CacheSetCall(key, value, ttl, fault)
    \/ \E key \in CacheKeys, fault \in BOOLEAN : CacheGetCall(key, fault)
    \/ \E key \in CacheKeys : CacheExpire(key)

CacheSpec == CacheInit /\ [][CacheNext]_vars

\* C29: a cache_get(key) after a cache_set(key, value, ttl) that returned,
\* with no later write to the key, before the entry expires and without an
\* error of the backend during the read, returns a value equal to the one
\* set, with the synchronous and with the asynchronous client.
C29_GetAfterSetReturnsValue ==
    IsSome(fp_ret) /\ IsSome(Get(fp_ret).set) /\ ~Get(fp_ret).fault =>
        /\ ~Get(fp_ret).raised
        /\ Get(fp_ret).value = Get(fp_ret).set


(* ============ the entry of POST /scan (routers/scan.py 42-96) ========== *)
MaxUploads == 2

\* routers/scan.py 20-21, config.py 15
ALLOWED == {"image/jpeg", "image/png", "image/webp"}

MAX_UPLOAD_MB == 10

MAX_BYTES == MAX_UPLOAD_MB * 1024 * 1024

\* an upload: its content type, the lower-case suffix of its file name
\* ("" without a file name), its bytes and their number
Upload(content_type, suffix, blob, len) ==
    [content_type |-> content_type, suffix |-> suffix, blob |-> blob, len |-> len]

Uploads ==
    { Upload("image/jpeg", ".jpg", "B", MAX_BYTES),
      Upload("image/jpeg", ".jpg", "B", MAX_BYTES + 1),
      Upload("application/octet-stream", ".png", "B", MAX_BYTES),
      Upload("application/octet-stream", "", "B", MAX_BYTES),
      Upload("text/plain", ".txt", "B", 1) }

\* scan.py 60-69
is_allowed(image) ==
    LET is_webp == image.content_type = "image/webp" \/ image.suffix = ".webp"
    IN  \/ image.content_type \in ALLOWED
        \/ is_webp
        \/ /\ image.content_type = "application/octet-stream"
           /\ image.suffix \in {".jpg", ".jpeg", ".png", ".webp"}

\* the limits of the runs of the entry: every window tight, or none
UploadSettings == { [n \in RlNames |-> 1], [n \in RlNames |-> 9] }

UploadInit ==
    /\ client \in {"sync", "async"}
    /\ gcv_key \in BOOLEAN
    /\ redis = [k \in Keys |-> None]
    /\ req = [r \in Reqs |-> IdleReq]
    /\ scans = 0
    /\ h_returned = [k \in ScanKeys |-> {}]
    /\ rl_limits \in UploadSettings
    /\ rl = [k \in RlKeys |-> NoCounter]
    /\ chk = <<>>
    /\ rl_checks = 0
    /\ rl_ticks = 0
    /\ h_rl = <<>>
    /\ FpIdle
    /\ EnIdle
    /\ SpIdle

\* deps.py 89-92: the four windows counted one after the other
RECURSIVE CountAll(_, _, _, _)
CountAll(store, ip, did, counts) ==
    IF Len(counts) = Len(RlOrder) THEN [store |-> store, counts |-> counts]
    ELSE LET name == RlOrder[Len(counts) + 1]
             res == _incr_with_ttl(store, RlKey(name, ip, did), RlTtl(name))
         IN  CountAll(res.store, ip, did, Append(counts, res.value))

\* Refuse that lets the request go on to the vision service all the same
Refuse_and_scan(q, status) == [q EXCEPT !.pc = "cache_get", !.response = status]

\* the HTTPException raised before the try block of the handler
Refuse(q, status) == [q EXCEPT !.pc = "done", !.response = status]

\* scan.py 59-96 once the dependencies let the request in: the media type
\* is checked, the upload is read and its size checked, then the preference
\* is read and VisionService.scan is called
Handle(image, groq_enabled) ==
    IF ~is_allowed(image) THEN Refuse(IdleReq, "415")
    ELSE IF image.len > MAX_BYTES THEN Refuse(IdleReq, "413")
    ELSE [IdleReq EXCEPT !.pc = "cache_get",
                         !.image_bytes = image.blob,
                         !.groq_enabled = groq_enabled]

\* the X-Device-Id headers of the uploads
UploadHeaders == {"d1", "bad"}

\* POST /scan received: device_id and rate_limit_dep run first (deps.py
\* 48-55, 75-119), then the handler starts
Enter(r, ip, header, image, groq_enabled) ==
    /\ req[r].pc \in {"idle", "done"}
    /\ scans < MaxUploads
    /\ scans' = scans + 1
    /\ LET did == device_id(header)
       IN  IF ~IsSome(did)
           THEN /\ req' = [req EXCEPT ![r] = Refuse(IdleReq, "400")]
                /\ rl' = rl
           ELSE LET counted == CountAll(rl, ip, Get(did), <<>>)
                    over == { i \in 1..Len(RlOrder) :
                                Exceeds(counted.counts[i], rl_limits[RlOrder[i]]) }
                IN  /\ rl' = counted.store
                    /\ req' = [req EXCEPT ![r] =
                           IF over # {} THEN Refuse(IdleReq, "429")
                           ELSE Handle(image, groq_enabled)]
    /\ UNCHANGED <<client, gcv_key, redis, h_returned, rl_limits, chk, rl_checks,
                   rl_ticks, h_rl, fp_vars, en_vars, sp_vars>>

UploadNext ==
    \/ \E r \in Reqs, ip \in Ips, header \in UploadHeaders, image \in Uploads,
          g \in BOOLEAN : Enter(r, ip, header, image, g)
    \/ \E r \in Reqs, fault \in BOOLEAN : CacheGet(r, fault, TRUE)
    \/ \E r \in Reqs, resp \in GroqResponses : GroqScan(r, resp)
    \/ \E r \in Reqs, resp \in GcvResponses : GcvScan(r, resp)
    \/ \E r \in Reqs, fault \in BOOLEAN : CacheSet(r, fault)
    \/ \E r \in Reqs, fault \in BOOLEAN : MetaGet(r, fault)
    \/ \E r \in Reqs, fault \in BOOLEAN : MetaSet(r, fault)
    \/ \E k \in Keys : Expire(k)

UploadSpec == UploadInit /\ [][UploadNext]_vars

\* the request was refused at the entry
Refused(q) == q.response \in {"429", "415", "413"}

\* the request has read or written no cache entry, called no provider and no
\* catalog and recorded no spend
Untouched(q) ==
    /\ q.h_get = "" /\ q.h_set = ""
    /\ q.h_calls = <<>> /\ q.h_ocr = <<>>
    /\ q.h_meta = <<>> /\ q.h_spend = <<>>
    /\ q.returned = None /\ q.books = <<>>

\* C31: a request refused at the entry (rate limit exceeded, unsupported
\* media type, upload over the size limit) does no processing: the step that
\* refuses it leaves the cache as it is, and the request never reads or
\* writes a scan-cache entry, never calls the OCR providers, the aggregation
\* model or a catalog and never records spend.
C31_RefusedDoesNothing ==
    [][\A r \in Reqs :
           Refused(req'[r]) =>
               /\ Untouched(req'[r])
               /\ req'[r].pc = "done"
               /\ req'[r] # req[r] => redis' = redis]_vars

\* with the tight limits one request was served and the next one refused
C31_Witness ==
    \E r, o \in Reqs :
        /\ req[r].response = "429"
        /\ req[o].response = "200" /\ req[o].h_calls # <<>>


(* ===== _downscale_image_if_needed in numbers (services/vision.py 24-84) = *)
\* Lengths are in hundredths of a MiB, widths and heights in tens of pixels.
\* max_size_mb = 3.5 (line 24)
max_size_mb == 350

\* the floors of lines 53-54: 400 and 300 pixels
MinWidth == 40

MinHeight == 30

\* len(base64.b64encode(b)): four characters for every three bytes
b64_size(len) == (4 * len + 2) \div 3

\* an image: the length of its bytes, its width and its height
Image(len, width, height) == [len |-> len, width |-> width, height |-> height]

Images ==
    { Image(len, w, h) : len \in {100, 262, 263, 500, 1000},
                         w \in {30, 160, 240}, h \in {20, 120, 180} }

\* what Image.save writes for a pixel of the resized image, as a fraction
\* <<num, den>> of the bytes per pixel of the original: the same, twice as
\* much (a re-encoding at quality 85) or half as much
Encodings == { <<1, 1>>, <<2, 1>>, <<1, 2>> }

\* int(x * scale_factor) with scale_factor = (target_binary_mb /
\* current_binary_mb) ** 0.5 and target_binary_mb = max_size_mb / 1.33
\* (lines 48-54): the greatest k with k * k * 133 * len <= x * x * 100 * 350
Scaled(x, len) ==
    LET q == (x * x * 100 * max_size_mb) \div (133 * len)
    IN  CHOOSE k \in 0..(2 * x) : k * k <= q /\ (k + 1) * (k + 1) > q

\* lines 61-70: the bytes of the resized image as the encoder writes them
Saved(img, new_width, new_height, enc) ==
    Max(1, (img.len * new_width * new_height * enc[1])
               \div (img.width * img.height * enc[2]))

\* _downscale_image_if_needed: the image as it is when its base64 size is
\* within the limit (lines 30-38) or when PIL raises (lines 82-84), else the
\* image resized once (lines 44-80)
downscale(img, pil_ok, enc) ==
    IF b64_size(img.len) <= max_size_mb THEN img
    ELSE IF ~pil_ok THEN img
    ELSE LET new_width == Max(MinWidth, Scaled(img.width, img.len))
             new_height == Max(MinHeight, Scaled(img.height, img.len))
         IN  Image(Saved(img, new_width, new_height, enc), new_width, new_height)

\* an image arrives, whether PIL can read it and what the encoder does chosen
DownscaleInit ==
    /\ ScanIdle
    /\ RlIdle
    /\ EnIdle
    /\ SpIdle
    /\ fp_args \in { [img |-> img, pil_ok |-> ok, enc |-> enc] :
                       img \in Images, ok \in BOOLEAN, enc \in Encodings }
    /\ fp_ret = None

\* vision.py 105: processed_image_bytes = _downscale_image_if_needed(image_bytes),
\* which line 115 hands to the primary provider
Downscale ==
    /\ fp_ret = None
    /\ fp_ret' = Some(downscale(fp_args.img, fp_args.pil_ok, fp_args.enc))
    /\ UNCHANGED <<fp_args, scan_vars, rl_vars, en_vars, sp_vars>>

DownscaleNext == Downscale

DownscaleSpec == DownscaleInit /\ [][DownscaleNext]_vars

\* C33: the bytes sent to the primary provider have a base64 size at or
\* below the 3.5 MB threshold: an image above it is resized to a base64 size
\* at or below it, with a width of at least 400 and a height of at least 300,
\* and an image at or below it is sent unchanged.
C33_SentBytesWithinThreshold ==
    IsSome(fp_ret) =>
        LET img == fp_args.img
            sent == Get(fp_ret)
        IN  /\ b64_size(sent.len) <= max_size_mb
            /\ b64_size(img.len) > max_size_mb =>
                  sent.width >= MinWidth /\ sent.height >= MinHeight
            /\ b64_size(img.len) <= max_size_mb => sent = img


(* =================== termination of a scan request ===================== *)
\* the steps of the request of slot r, whatever the outer world answers
\* (the two replies of the metadata cache are written out, the failing one
\* first)
Step(r) ==
    \/ \E fault \in BOOLEAN : CacheGet(r, fault, TRUE)
    \/ \E resp \in GroqResponses : GroqScan(r, resp)
    \/ \E resp \in GcvResponses : GcvScan(r, resp)
    \/ \E fault \in BOOLEAN : CacheSet(r, fault)
    \/ MetaGet(r, TRUE)
    \/ MetaGet(r, FALSE)
    \/ MetaSet(r, TRUE)
    \/ MetaSet(r, FALSE)

MaxLive == 2

\* the requests of these runs come one after the other
LiveReqs == {"r1"}

\* POST /scan received, for the runs that look at termination
LiveReceive(r, image_bytes, groq_enabled) ==
    /\ scans < MaxLive
    /\ Receive(r, image_bytes, groq_enabled)

LiveNext ==
    \/ \E r \in LiveReqs, b \in ImageBytes, g \in BOOLEAN : LiveReceive(r, b, g)
    \/ \E r \in LiveReqs : Step(r)
    \/ \E k \in Keys : Expire(k)

\* every external call returns or fails, and the event loop runs every
\* request that can go on
LiveSpec == Init /\ [][LiveNext]_vars /\ \A r \in LiveReqs : WF_vars(Step(r))

\* the request is being handled
Busy(q) == q.pc \notin {"idle", "done"}

\* how a request ended: with the cached list, with the list of a provider
\* path, or with an error
Outcomes(q) ==
    { o \in {"cached", "fresh", "error"} :
        \/ o = "cached" /\ q.response = "200" /\ IsSome(q.returned)
              /\ Get(q.returned)[2] = "cached" /\ q.h_get = "hit"
        \/ o = "fresh" /\ q.response = "200" /\ IsSome(q.returned)
              /\ Get(q.returned)[2] \in {"groq", "gcv"} /\ q.h_get = "miss"
              /\ q.h_ocr # <<>> /\ Get(q.returned)[1] = q.h_ocr[Len(q.h_ocr)]
        \/ o = "error" /\ q.response = "500" /\ q.returned = None }

\* C39: provided every external call returns or fails, every admitted scan
\* request comes to its end, and a request at its end has exactly one of
\* three outcomes: the cached Spine list, a fresh Spine list of a provider
\* path, or an error.
C39_EveryScanEnds ==
    /\ \A r \in Reqs : Busy(req[r]) ~> (req[r].pc = "done")
    /\ [](\A r \in Reqs : req[r].pc = "done" => Cardinality(Outcomes(req[r])) = 1)

\* the last request ended with the cached list of the one before it
C39_Witness ==
    \E r \in Reqs :
        /\ req[r].pc = "done" /\ Outcomes(req[r]) = {"cached"}
        /\ scans = MaxLive

====
